---- MODULE Spec2Model ----
(***************************************************************************)
(* ExpenseWise: expenses, vendors, categories, income and the summary      *)
(* counters, over the remote document database (with the client-side       *)
(* query cache) and over browser-local storage.                            *)
(*                                                                         *)
(* Amounts are exact integers (cents).  A view is one open browser tab     *)
(* with its own query cache.                                               *)
(***************************************************************************)
EXTENDS Integers, Sequences, FiniteSets, TLC

(* ------------------------------ bounds --------------------------------- *)
MaxExpenses == 2
MaxRecords == 2
MaxEvents == 2
MaxDate == 3
MaxDrawn == 6
MaxHistory == 31

Views == {1, 2}

(* ---------------------------- constants -------------------------------- *)
NO_VENDOR_VALUE == "__none__"
NullVendor == "<null>"

AmountInputs == {"undefined", "", "abc", "-1", "0", "1", "2"}

Names == {"A", "a", "B"}

(* ------------------------------ state ---------------------------------- *)
VARIABLES
    expensesDocs,      \* remote "expenses" collection: id -> document
    nextExpenseId,     \* next auto-generated expense document id
    summaryDoc,        \* settings/globalSummary
    incomeDoc,         \* settings/userIncome
    categoriesDocs,    \* remote "categories" collection: id -> name
    vendorsDocs,       \* remote "vendors" collection: id -> name
    nextCategoryId,
    nextVendorId,
    expensesCache,     \* per view: cached ["expenses"] query data
    expensesPages,     \* per view: data.pages of the ["expenses"] infinite query, page by page
    categoriesCache,   \* per view: cached ["categories"] query data
    vendorsCache,      \* per view: cached ["vendors"] query data
    summaryCache,      \* per view: cached ["summaryData"] query data
    incomeCache,       \* per view: cached ["incomeSetting"] query data
    recentCache,       \* per view: cached ["expenses", "recent"] query data
    refetch,           \* per view: query keys with a fetch in flight
    mut,               \* per view: the mutation in flight
    notice,            \* per view: last toast title or form field error
    editingVendorId,   \* per view: the vendor being edited (0 = null)
    editingCategoryId, \* per view: the category being edited (0 = null)
    backend,           \* "remote" (document database) or "local" (localStorage)
    revision,          \* the revision of the dashboard page that is deployed
    expenses,          \* per tab: state of the local DashboardPage, id -> expense
    page,              \* per tab: the localStorage-backed page that is mounted
    categories,        \* per tab: state of the local CategoriesPage, id -> name
    vendors,           \* per tab: state of the local VendorsPage, id -> name
    localStorage,      \* the stored value under the categories and vendors keys
    savedExpenses,     \* the stored value under the expenses key
    events,            \* per tab: storage events not yet handled
    amountField,       \* per view: the amount field of the expense form
    dashboard          \* per view: the three rendered summary cards

storeVars == <<expensesDocs, nextExpenseId, summaryDoc, incomeDoc,
               categoriesDocs, vendorsDocs, nextCategoryId, nextVendorId>>
cacheVars == <<expensesCache, expensesPages, categoriesCache, vendorsCache, summaryCache,
               incomeCache, recentCache, refetch>>
localVars == <<backend, revision, expenses, page, categories, vendors, localStorage, savedExpenses, events>>
editingVars == <<editingVendorId, editingCategoryId, localVars>>
viewVars == <<mut, notice, editingVars, amountField, dashboard>>
vars == <<storeVars, cacheVars, viewVars>>

(* ----------------------------- helpers --------------------------------- *)
Remove(f, k) == [i \in DOMAIN f \ {k} |-> f[i]]

Put(f, k, val) == [i \in DOMAIN f \cup {k} |-> IF i = k THEN val ELSE f[i]]

RECURSIVE SumAmounts(_)
SumAmounts(docs) ==
    IF DOMAIN docs = {} THEN 0
    ELSE LET k == CHOOSE i \in DOMAIN docs : TRUE
         IN docs[k].amount + SumAmounts(Remove(docs, k))

NoSummary == [exists |-> FALSE, totalExpenses |-> 0, expenseCount |-> 0]
NoIncome == [exists |-> FALSE, amount |-> 0]
NotLoaded == [loaded |-> FALSE, exists |-> FALSE, totalExpenses |-> 0, expenseCount |-> 0]
IncomeNotLoaded == [loaded |-> FALSE, amount |-> 0]

Idle == [op |-> "none", pc |-> "idle", id |-> 0, amount |-> 0, date |-> 0,
         category |-> "", vendor |-> "", name |-> "", dup |-> FALSE, snapshot |-> {}]

(* String.prototype.toLowerCase on the names of the model *)
toLowerCase(name) ==
    CASE name = "A" -> "a"
      [] name = "B" -> "b"
      [] OTHER -> name

(* z.coerce.number(): Number(value) *)
CoerceNumber(s) ==
    CASE s = "undefined" -> [nan |-> TRUE, n |-> 0]
      [] s = "abc" -> [nan |-> TRUE, n |-> 0]
      [] s = "" -> [nan |-> FALSE, n |-> 0]
      [] s = "-1" -> [nan |-> FALSE, n |-> 0 - 1]
      [] s = "0" -> [nan |-> FALSE, n |-> 0]
      [] s = "1" -> [nan |-> FALSE, n |-> 1]
      [] s = "2" -> [nan |-> FALSE, n |-> 2]

(* expenseFormSchema with .nonnegative() in place of .positive() *)
expenseFormSchema_nonnegative(amount, category) ==
    LET c == CoerceNumber(amount)
    IN IF c.nan THEN "Expected number, received nan"
       ELSE IF ~(c.n >= 0) THEN "Amount must be positive."
       ELSE IF category = "" THEN "Category is required."
       ELSE ""

(* expenseFormSchema: the first failing field's message, "" when valid *)
expenseFormSchema(amount, category) ==
    LET c == CoerceNumber(amount)
    IN IF c.nan THEN "Expected number, received nan"
       ELSE IF ~(c.n > 0) THEN "Amount must be positive."
       ELSE IF category = "" THEN "Category is required."
       ELSE ""

(* the balance memo with the operands of the subtraction exchanged *)
balance_swapped(incomeSetting, summaryData) ==
    LET currentIncome == IF incomeSetting.loaded THEN incomeSetting.amount ELSE 0
        totalExpenses == IF summaryData.loaded /\ summaryData.exists
                         THEN summaryData.totalExpenses ELSE 0
    IN totalExpenses - currentIncome

(* the balance memo of the dashboard *)
balance(incomeSetting, summaryData) ==
    LET currentIncome == IF incomeSetting.loaded THEN incomeSetting.amount ELSE 0
        totalExpenses == IF summaryData.loaded /\ summaryData.exists
                         THEN summaryData.totalExpenses ELSE 0
    IN currentIncome - totalExpenses

(* the three summary cards as rendered *)
Render(incomeSetting, summaryData) ==
    [income |-> IF incomeSetting.loaded THEN incomeSetting.amount ELSE 0,
     expenses |-> IF summaryData.loaded /\ summaryData.exists
                  THEN summaryData.totalExpenses ELSE 0,
     balance |-> balance(incomeSetting, summaryData)]

(* parseFloat(String(newIncome)) *)
IncomeInputs == {"abc", "-1", "0", "3"}

parseFloat(s) ==
    CASE s = "abc" -> [nan |-> TRUE, n |-> 0]
      [] s = "-1" -> [nan |-> FALSE, n |-> 0 - 1]
      [] s = "0" -> [nan |-> FALSE, n |-> 0]
      [] s = "3" -> [nan |-> FALSE, n |-> 3]

EmptyDocs == [i \in {} |-> 0]

Range(f) == {f[i] : i \in DOMAIN f}

Pending(v) == mut[v].op # "none"

(* the date of an expense is a day number *)
Dates == 1..MaxDate

(* the form's date field starts at new Date() and the calendar offers no
   later day *)
Today == MaxDate

(* document a comes before document b under orderBy("date", "desc"): later
   dates first, equal dates in the descending order of the document names *)
Before_ascending(docs, a, b) ==
    \/ docs[a].date < docs[b].date
    \/ docs[a].date = docs[b].date /\ a > b

Before(docs, a, b) ==
    \/ docs[a].date > docs[b].date
    \/ docs[a].date = docs[b].date /\ a > b

(* the documents of a query ordered by date descending, as a list of ids *)
orderBy(docs) ==
    LET ids == DOMAIN docs
        rank(i) == Cardinality({j \in ids : Before(docs, j, i)}) + 1
    IN [k \in 1..Cardinality(ids) |-> CHOOSE i \in ids : rank(i) = k]

(* limit(n) of a query result *)
limitTo(list, n) == SubSeq(list, 1, IF Len(list) < n THEN Len(list) ELSE n)

(* the ["expenses", "recent"] query: orderBy("date", "desc"), limit(5), each
   snapshot mapped to its id and data *)
Recent(docs) ==
    LET ids == limitTo(orderBy(docs), 5)
    IN [k \in 1..Len(ids) |-> [id |-> ids[k]] @@ docs[ids[k]]]

(* every render recomputes the cards from the cached query data *)
Rerender ==
    dashboard' = [v \in Views |-> Render(incomeCache'[v], summaryCache'[v])]

Invalidate(v, keys) == refetch' = [refetch EXCEPT ![v] = @ \cup keys]

(* no mutation, no fetch and no storage event is in flight in any view *)
Quiet == \A v \in Views : ~Pending(v) /\ refetch[v] = {} /\ events[v] = <<>>

(* a value stored in localStorage: nothing, a JSON array, or some other text *)
NoItem == [kind |-> "absent", list |-> EmptyDocs]

(* JSON.stringify of a list *)
stringify(list) == [kind |-> "json", list |-> list]

(* getItem followed by JSON.parse, with the empty list when nothing is stored
   or the text does not parse *)
parse(item) == IF item.kind = "json" THEN item.list ELSE EmptyDocs

LOCAL_STORAGE_KEY_CATEGORIES == "expenseWiseApp_categories"
LOCAL_STORAGE_KEY_VENDORS == "expenseWiseApp_vendors"
LOCAL_STORAGE_KEY_EXPENSES == "expenseWiseApp_expenses"
LocalKeys == {LOCAL_STORAGE_KEY_CATEGORIES, LOCAL_STORAGE_KEY_VENDORS}

(* the localStorage variant is not in use *)
NoLocal ==
    /\ page = [v \in Views |-> "none"]
    /\ expenses = [v \in Views |-> EmptyDocs]
    /\ categories = [v \in Views |-> EmptyDocs]
    /\ vendors = [v \in Views |-> EmptyDocs]
    /\ localStorage = [k \in LocalKeys |-> NoItem]
    /\ savedExpenses = NoItem
    /\ events = [v \in Views |-> <<>>]

(* ------------------------- initial states ------------------------------ *)
InitViews ==
    /\ expensesCache = [v \in Views |-> expensesDocs]
    /\ expensesPages = [v \in Views |-> <<>>]
    /\ categoriesCache = [v \in Views |-> categoriesDocs]
    /\ vendorsCache = [v \in Views |-> vendorsDocs]
    /\ summaryCache = [v \in Views |->
           [loaded |-> summaryDoc.exists, exists |-> summaryDoc.exists,
            totalExpenses |-> summaryDoc.totalExpenses,
            expenseCount |-> summaryDoc.expenseCount]]
    /\ incomeCache = [v \in Views |->
           [loaded |-> incomeDoc.exists, amount |-> incomeDoc.amount]]
    /\ recentCache = [v \in Views |-> Recent(expensesDocs)]
    /\ refetch = [v \in Views |-> {}]
    /\ mut = [v \in Views |-> Idle]
    /\ notice = [v \in Views |-> ""]
    /\ editingVendorId = [v \in Views |-> 0]
    /\ editingCategoryId = [v \in Views |-> 0]
    /\ amountField = [v \in Views |-> "undefined"]
    /\ dashboard = [v \in Views |-> Render(incomeCache[v], summaryCache[v])]

(* an empty expense collection; the summary document is absent or zero *)
InitExpenses ==
    /\ expensesDocs = EmptyDocs
    /\ nextExpenseId = 1
    /\ summaryDoc \in {NoSummary, [exists |-> TRUE, totalExpenses |-> 0, expenseCount |-> 0]}
    /\ incomeDoc \in {NoIncome, [exists |-> TRUE, amount |-> 3]}
    /\ categoriesDocs = (1 :> "A")
    /\ vendorsDocs = EmptyDocs
    /\ nextCategoryId = 2
    /\ nextVendorId = 1
    /\ backend = "remote"
    /\ revision = "lazyCreate"
    /\ NoLocal
    /\ InitViews

(* ------------------- expenses page (remote, counters) ------------------ *)
(* form.handleSubmit(onSubmit): validation, then addExpenseMutation.mutate *)
onSubmitExpense(v, amount, category, vendor) ==
    /\ ~Pending(v)
    /\ nextExpenseId <= MaxExpenses
    /\ category \in {""} \cup Range(categoriesCache[v])
    /\ vendor \in {"", NO_VENDOR_VALUE} \cup Range(vendorsCache[v])
    /\ LET err == expenseFormSchema(amount, category)
       IN IF err # ""
          THEN /\ notice' = [notice EXCEPT ![v] = err]
               /\ UNCHANGED mut
          ELSE /\ mut' = [mut EXCEPT ![v] =
                      [Idle EXCEPT !.op = "addExpense", !.pc = "ensureGet",
                                   !.amount = CoerceNumber(amount).n,
                                   !.date = Today,
                                   !.category = category, !.vendor = vendor]]
               /\ UNCHANGED notice
    /\ amountField' = [amountField EXCEPT ![v] = amount]
    /\ UNCHANGED <<storeVars, cacheVars, editingVars, dashboard>>

(* the Delete button of a listed expense: deleteExpenseMutation.mutate *)
deleteExpense(v, id) ==
    /\ ~Pending(v)
    /\ id \in DOMAIN expensesCache[v]
    /\ mut' = [mut EXCEPT ![v] =
           [Idle EXCEPT !.op = "deleteExpense", !.pc = "ensureGet",
                        !.id = id, !.amount = expensesCache[v][id].amount]]
    /\ UNCHANGED <<storeVars, cacheVars, notice, editingVars, amountField, dashboard>>

(* ensureSummaryDocExists: getDoc *)
ensureSummaryDocExistsGet(v) ==
    /\ mut[v].op \in {"addExpense", "deleteExpense"}
    /\ mut[v].pc = "ensureGet"
    /\ mut' = [mut EXCEPT ![v].pc = IF summaryDoc.exists THEN "commit" ELSE "ensureSet"]
    /\ UNCHANGED <<storeVars, cacheVars, notice, editingVars, amountField, dashboard>>

(* ensureSummaryDocExists: setDoc of the default counters *)
ensureSummaryDocExistsSet(v) ==
    /\ mut[v].op \in {"addExpense", "deleteExpense"}
    /\ mut[v].pc = "ensureSet"
    /\ summaryDoc' = [exists |-> TRUE, totalExpenses |-> 0, expenseCount |-> 0]
    /\ mut' = [mut EXCEPT ![v].pc = "commit"]
    /\ UNCHANGED <<expensesDocs, nextExpenseId, incomeDoc, categoriesDocs, vendorsDocs,
                   nextCategoryId, nextVendorId, cacheVars, notice, editingVars, amountField, dashboard>>

SummaryIncrement(s, amount, count) ==
    [s EXCEPT !.totalExpenses = @ + amount, !.expenseCount = @ + count]

(* dataToSave of addExpenseMutation *)
dataToSave(m) ==
    [date |-> m.date, amount |-> m.amount, category |-> m.category,
     vendor |-> IF m.vendor = NO_VENDOR_VALUE THEN NullVendor ELSE m.vendor]

(* addExpenseMutation with two separate writes, stopped after the first *)
addExpenseCommit_expenseOnly(v) ==
    /\ mut[v].op = "addExpense"
    /\ mut[v].pc = "commit"
    /\ summaryDoc.exists
    /\ expensesDocs' = Put(expensesDocs, nextExpenseId, dataToSave(mut[v]))
    /\ nextExpenseId' = nextExpenseId + 1
    /\ mut' = [mut EXCEPT ![v] = Idle]
    /\ notice' = [notice EXCEPT ![v] = "Error Adding Expense"]
    /\ UNCHANGED <<summaryDoc, incomeDoc, categoriesDocs, vendorsDocs, nextCategoryId,
                   nextVendorId, cacheVars, editingVars, amountField, dashboard>>

(* addExpenseMutation: batch.commit() and onSuccess *)
addExpenseCommit(v) ==
    /\ mut[v].op = "addExpense"
    /\ mut[v].pc = "commit"
    /\ summaryDoc.exists
    /\ expensesDocs' = Put(expensesDocs, nextExpenseId, dataToSave(mut[v]))
    /\ nextExpenseId' = nextExpenseId + 1
    /\ summaryDoc' = SummaryIncrement(summaryDoc, mut[v].amount, 1)
    /\ Invalidate(v, {"expenses", "summaryData", "recent"})
    /\ mut' = [mut EXCEPT ![v] = Idle]
    /\ notice' = [notice EXCEPT ![v] = "Expense Added"]
    /\ amountField' = [amountField EXCEPT ![v] = "undefined"]
    /\ UNCHANGED <<recentCache, incomeDoc, categoriesDocs, vendorsDocs, nextCategoryId, nextVendorId,
                   expensesCache, expensesPages, categoriesCache, vendorsCache, summaryCache, incomeCache,
                   editingVars, dashboard>>

(* deleteExpenseMutation with the delete and the counter update not batched:
   the counter update is lost *)
deleteExpenseCommit_noDecrement(v) ==
    /\ mut[v].op = "deleteExpense"
    /\ mut[v].pc = "commit"
    /\ summaryDoc.exists
    /\ expensesDocs' = Remove(expensesDocs, mut[v].id)
    /\ expensesCache' = [expensesCache EXCEPT ![v] = Remove(@, mut[v].id)]
    /\ expensesPages' = [expensesPages EXCEPT ![v] =
           [p \in DOMAIN @ |->
               [@[p] EXCEPT !.expenses = SelectSeq(@, LAMBDA e : e.id # mut[v].id)]]]
    /\ Invalidate(v, {"expenses", "summaryData", "recent"})
    /\ mut' = [mut EXCEPT ![v] = Idle]
    /\ notice' = [notice EXCEPT ![v] = "Expense Deleted"]
    /\ UNCHANGED <<recentCache, nextExpenseId, summaryDoc, incomeDoc, categoriesDocs, vendorsDocs,
                   nextCategoryId, nextVendorId, categoriesCache, vendorsCache,
                   summaryCache, incomeCache, editingVars, amountField, dashboard>>

(* deleteExpenseMutation: batch.commit() and onSuccess *)
deleteExpenseCommit(v) ==
    /\ mut[v].op = "deleteExpense"
    /\ mut[v].pc = "commit"
    /\ summaryDoc.exists
    /\ expensesDocs' = Remove(expensesDocs, mut[v].id)
    /\ summaryDoc' = SummaryIncrement(summaryDoc, 0 - mut[v].amount, 0 - 1)
    /\ expensesCache' = [expensesCache EXCEPT ![v] = Remove(@, mut[v].id)]
    /\ expensesPages' = [expensesPages EXCEPT ![v] =
           [p \in DOMAIN @ |->
               [@[p] EXCEPT !.expenses = SelectSeq(@, LAMBDA e : e.id # mut[v].id)]]]
    /\ Invalidate(v, {"expenses", "summaryData", "recent"})
    /\ mut' = [mut EXCEPT ![v] = Idle]
    /\ notice' = [notice EXCEPT ![v] = "Expense Deleted"]
    /\ UNCHANGED <<recentCache, nextExpenseId, incomeDoc, categoriesDocs, vendorsDocs, nextCategoryId,
                   nextVendorId, categoriesCache, vendorsCache, summaryCache, incomeCache,
                   editingVars, amountField, dashboard>>

(* onError of the expense mutations that raises the toast while the mutation
   stays pending *)
expenseMutationError_keepsPending(v) ==
    /\ mut[v].op \in {"addExpense", "deleteExpense"}
    /\ notice' = [notice EXCEPT ![v] =
           IF mut[v].op = "addExpense" THEN "Error Adding Expense"
           ELSE "Error Deleting Expense"]
    /\ UNCHANGED mut
    /\ UNCHANGED <<storeVars, cacheVars, editingVars, amountField, dashboard>>

(* a rejected promise of either expense mutation: onError *)
expenseMutationError(v) ==
    /\ mut[v].op \in {"addExpense", "deleteExpense"}
    /\ notice' = [notice EXCEPT ![v] =
           IF mut[v].op = "addExpense" THEN "Error Adding Expense"
           ELSE "Error Deleting Expense"]
    /\ mut' = [mut EXCEPT ![v] = Idle]
    /\ UNCHANGED <<storeVars, cacheVars, editingVars, amountField, dashboard>>

(* queryFn of the ["expenses"] query *)
fetchExpenses(v) ==
    /\ "expenses" \in refetch[v]
    /\ expensesCache' = [expensesCache EXCEPT ![v] = expensesDocs]
    /\ UNCHANGED expensesPages
    /\ refetch' = [refetch EXCEPT ![v] = @ \ {"expenses"}]
    /\ UNCHANGED <<recentCache, storeVars, categoriesCache, vendorsCache, summaryCache, incomeCache,
                   viewVars>>

(* queryFn of the ["expenses", "recent"] query: the five newest expenses *)
fetchRecentExpenses(v) ==
    /\ "recent" \in refetch[v]
    /\ recentCache' = [recentCache EXCEPT ![v] = Recent(expensesDocs)]
    /\ refetch' = [refetch EXCEPT ![v] = @ \ {"recent"}]
    /\ UNCHANGED <<storeVars, expensesCache, expensesPages, categoriesCache, vendorsCache, summaryCache,
                   incomeCache, viewVars>>

(* ----------------------------- dashboard ------------------------------- *)
(* opening the dashboard: stale or never-loaded queries are fetched *)
mountDashboard(v) ==
    /\ ~Pending(v)
    /\ Invalidate(v, {"summaryData", "recent"} \cup
                     (IF incomeCache[v].loaded THEN {} ELSE {"incomeSetting"}))
    /\ UNCHANGED <<storeVars, expensesCache, expensesPages, categoriesCache, vendorsCache,
                   summaryCache, incomeCache, recentCache, viewVars>>

Loaded(doc) ==
    [loaded |-> TRUE, exists |-> TRUE, totalExpenses |-> doc.totalExpenses,
     expenseCount |-> doc.expenseCount]

(* queryFn of ["summaryData"]: getDoc *)
fetchSummaryData(v) ==
    /\ "summaryData" \in refetch[v]
    /\ IF summaryDoc.exists
       THEN /\ summaryCache' = [summaryCache EXCEPT ![v] = Loaded(summaryDoc)]
            /\ refetch' = [refetch EXCEPT ![v] = @ \ {"summaryData"}]
       ELSE /\ refetch' = [refetch EXCEPT ![v] = (@ \ {"summaryData"}) \cup {"summaryData/create"}]
            /\ UNCHANGED summaryCache
    /\ UNCHANGED <<recentCache, storeVars, expensesCache, expensesPages, categoriesCache, vendorsCache, incomeCache,
                   mut, notice, editingVars, amountField>>
    /\ Rerender

(* queryFn of ["summaryData"]: setDoc when the document was not found *)
createSummaryData(v) ==
    /\ "summaryData/create" \in refetch[v]
    /\ summaryDoc' = [exists |-> TRUE, totalExpenses |-> 0, expenseCount |-> 0]
    /\ summaryCache' = [summaryCache EXCEPT ![v] = Loaded(summaryDoc')]
    /\ refetch' = [refetch EXCEPT ![v] = @ \ {"summaryData/create"}]
    /\ UNCHANGED <<recentCache, expensesDocs, nextExpenseId, incomeDoc, categoriesDocs, vendorsDocs,
                   nextCategoryId, nextVendorId, expensesCache, expensesPages, categoriesCache,
                   vendorsCache, incomeCache, mut, notice, editingVars, amountField>>
    /\ Rerender

(* queryFn of ["incomeSetting"]: getDoc *)
fetchIncomeSetting(v) ==
    /\ "incomeSetting" \in refetch[v]
    /\ IF incomeDoc.exists
       THEN /\ incomeCache' = [incomeCache EXCEPT ![v] =
                   [loaded |-> TRUE, amount |-> incomeDoc.amount]]
            /\ refetch' = [refetch EXCEPT ![v] = @ \ {"incomeSetting"}]
       ELSE /\ refetch' = [refetch EXCEPT ![v] = (@ \ {"incomeSetting"}) \cup {"incomeSetting/create"}]
            /\ UNCHANGED incomeCache
    /\ UNCHANGED <<recentCache, storeVars, expensesCache, expensesPages, categoriesCache, vendorsCache, summaryCache,
                   mut, notice, editingVars, amountField>>
    /\ Rerender

(* queryFn of ["incomeSetting"]: setDoc when the document was not found *)
createIncomeSetting(v) ==
    /\ "incomeSetting/create" \in refetch[v]
    /\ incomeDoc' = [exists |-> TRUE, amount |-> 0]
    /\ incomeCache' = [incomeCache EXCEPT ![v] = [loaded |-> TRUE, amount |-> 0]]
    /\ refetch' = [refetch EXCEPT ![v] = @ \ {"incomeSetting/create"}]
    /\ UNCHANGED <<recentCache, expensesDocs, nextExpenseId, summaryDoc, categoriesDocs, vendorsDocs,
                   nextCategoryId, nextVendorId, expensesCache, expensesPages, categoriesCache,
                   vendorsCache, summaryCache, mut, notice, editingVars, amountField>>
    /\ Rerender

(* handleIncomeUpdate with incomeValue > 0 in place of incomeValue >= 0 *)
handleIncomeUpdate_positive(v, newIncome) ==
    /\ ~Pending(v)
    /\ LET incomeValue == parseFloat(newIncome)
       IN IF ~incomeValue.nan /\ incomeValue.n > 0
          THEN /\ mut' = [mut EXCEPT ![v] =
                      [Idle EXCEPT !.op = "updateIncome", !.pc = "commit",
                                   !.amount = incomeValue.n]]
               /\ UNCHANGED notice
          ELSE /\ notice' = [notice EXCEPT ![v] = "Invalid Income Amount"]
               /\ UNCHANGED mut
    /\ UNCHANGED <<storeVars, cacheVars, editingVars, amountField, dashboard>>

(* handleIncomeUpdate: parse, validate, updateIncomeMutation.mutate *)
handleIncomeUpdate(v, newIncome) ==
    /\ ~Pending(v)
    /\ LET incomeValue == parseFloat(newIncome)
       IN IF ~incomeValue.nan /\ incomeValue.n >= 0
          THEN /\ mut' = [mut EXCEPT ![v] =
                      [Idle EXCEPT !.op = "updateIncome", !.pc = "commit",
                                   !.amount = incomeValue.n]]
               /\ UNCHANGED notice
          ELSE /\ notice' = [notice EXCEPT ![v] = "Invalid Income Amount"]
               /\ UNCHANGED mut
    /\ UNCHANGED <<storeVars, cacheVars, editingVars, amountField, dashboard>>

(* updateIncomeMutation: setDoc with merge, then onSuccess *)
updateIncomeCommit(v) ==
    /\ mut[v].op = "updateIncome"
    /\ incomeDoc' = [exists |-> TRUE, amount |-> mut[v].amount]
    /\ incomeCache' = [incomeCache EXCEPT ![v] = [loaded |-> TRUE, amount |-> mut[v].amount]]
    /\ mut' = [mut EXCEPT ![v] = Idle]
    /\ notice' = [notice EXCEPT ![v] = "Income Updated"]
    /\ UNCHANGED <<recentCache, expensesDocs, nextExpenseId, summaryDoc, categoriesDocs, vendorsDocs,
                   nextCategoryId, nextVendorId, expensesCache, expensesPages, categoriesCache,
                   vendorsCache, summaryCache, refetch, editingVars, amountField>>
    /\ Rerender

(* updateIncomeMutation: onError *)
updateIncomeError(v) ==
    /\ mut[v].op = "updateIncome"
    /\ mut' = [mut EXCEPT ![v] = Idle]
    /\ notice' = [notice EXCEPT ![v] = "Error Updating Income"]
    /\ UNCHANGED <<storeVars, cacheVars, editingVars, amountField, dashboard>>

(* ------------- dashboard with the data reset (remote) ------------------ *)
(* the default batchSize of deleteCollection *)
batchSize == 500

(* queryFn of ["summaryData"] that returns null when the document is missing *)
fetchSummaryDataNullable(v) ==
    /\ revision = "reset"
    /\ "summaryData" \in refetch[v]
    /\ summaryCache' = [summaryCache EXCEPT ![v] =
           IF summaryDoc.exists THEN Loaded(summaryDoc)
           ELSE [loaded |-> TRUE, exists |-> FALSE, totalExpenses |-> 0, expenseCount |-> 0]]
    /\ refetch' = [refetch EXCEPT ![v] = @ \ {"summaryData"}]
    /\ UNCHANGED <<recentCache, storeVars, expensesCache, expensesPages, categoriesCache, vendorsCache,
                   incomeCache, mut, notice, editingVars, amountField>>
    /\ Rerender

(* queryFn of ["incomeSetting"] that returns null when the document is missing;
   the cards show incomeSetting?.amount ?? 0 *)
fetchIncomeSettingNullable(v) ==
    /\ revision = "reset"
    /\ "incomeSetting" \in refetch[v]
    /\ incomeCache' = [incomeCache EXCEPT ![v] =
           [loaded |-> TRUE, amount |-> IF incomeDoc.exists THEN incomeDoc.amount ELSE 0]]
    /\ refetch' = [refetch EXCEPT ![v] = @ \ {"incomeSetting"}]
    /\ UNCHANGED <<recentCache, storeVars, expensesCache, expensesPages, categoriesCache, vendorsCache,
                   summaryCache, mut, notice, editingVars, amountField>>
    /\ Rerender

(* updateIncomeMutation of the dashboard with the reset: setDoc with merge,
   then onSuccess sets the cached income and invalidates both settings *)
updateIncomeCommitInvalidating(v) ==
    /\ revision = "reset"
    /\ mut[v].op = "updateIncome"
    /\ incomeDoc' = [exists |-> TRUE, amount |-> mut[v].amount]
    /\ incomeCache' = [incomeCache EXCEPT ![v] = [loaded |-> TRUE, amount |-> mut[v].amount]]
    /\ Invalidate(v, {"incomeSetting", "summaryData"})
    /\ mut' = [mut EXCEPT ![v] = Idle]
    /\ notice' = [notice EXCEPT ![v] = "Income Updated"]
    /\ UNCHANGED <<recentCache, expensesDocs, nextExpenseId, summaryDoc, categoriesDocs,
                   vendorsDocs, nextCategoryId, nextVendorId, expensesCache, expensesPages, categoriesCache,
                   vendorsCache, summaryCache, editingVars, amountField>>
    /\ Rerender

(* handleResetData: resetDataMutation.mutate() *)
handleResetData(v) ==
    /\ revision = "reset"
    /\ ~Pending(v)
    /\ mut' = [mut EXCEPT ![v] = [Idle EXCEPT !.op = "resetData", !.pc = "getDocs"]]
    /\ UNCHANGED <<storeVars, cacheVars, notice, editingVars, amountField, dashboard>>

(* query(collectionRef, limit(batchSize)): the first batchSize documents *)
limit(docs, n) == {i \in DOMAIN docs : Cardinality({k \in DOMAIN docs : k < i}) < n}

(* deleteCollection: getDocs(q), and the test of the while loop *)
deleteCollectionGetDocs(v) ==
    /\ mut[v].op = "resetData"
    /\ mut[v].pc = "getDocs"
    /\ LET snapshot == limit(expensesDocs, batchSize)
       IN mut' = [mut EXCEPT ![v].snapshot = snapshot,
                             ![v].pc = IF snapshot # {} THEN "delete" ELSE "settings"]
    /\ UNCHANGED <<storeVars, cacheVars, notice, editingVars, amountField, dashboard>>

(* deleteCollection: batch.delete of every document of the snapshot, commit *)
deleteCollectionCommit(v) ==
    /\ mut[v].op = "resetData"
    /\ mut[v].pc = "delete"
    /\ expensesDocs' = [i \in DOMAIN expensesDocs \ mut[v].snapshot |-> expensesDocs[i]]
    /\ mut' = [mut EXCEPT ![v].snapshot = {}, ![v].pc = "getDocs"]
    /\ UNCHANGED <<nextExpenseId, summaryDoc, incomeDoc, categoriesDocs, vendorsDocs,
                   nextCategoryId, nextVendorId, cacheVars, notice, editingVars,
                   amountField, dashboard>>

(* resetDataMutation with a settings batch that only resets the summary *)
resetDataCommit_summaryOnly(v) ==
    /\ mut[v].op = "resetData"
    /\ mut[v].pc = "settings"
    /\ summaryDoc' = [exists |-> TRUE, totalExpenses |-> 0, expenseCount |-> 0]
    /\ Invalidate(v, {"expenses", "recent", "incomeSetting", "summaryData"})
    /\ mut' = [mut EXCEPT ![v] = Idle]
    /\ notice' = [notice EXCEPT ![v] = "Application Data Reset"]
    /\ UNCHANGED <<expensesDocs, nextExpenseId, incomeDoc, categoriesDocs, vendorsDocs,
                   nextCategoryId, nextVendorId, expensesCache, expensesPages, categoriesCache, vendorsCache,
                   summaryCache, incomeCache, recentCache, editingVars, amountField, dashboard>>

(* resetDataMutation: the batch that sets income and summary, and onSuccess;
   the ["expenses"] invalidation matches ["expenses", "recent"] as a prefix *)
resetDataCommit(v) ==
    /\ mut[v].op = "resetData"
    /\ mut[v].pc = "settings"
    /\ incomeDoc' = [exists |-> TRUE, amount |-> 0]
    /\ summaryDoc' = [exists |-> TRUE, totalExpenses |-> 0, expenseCount |-> 0]
    /\ Invalidate(v, {"expenses", "recent", "incomeSetting", "summaryData"})
    /\ mut' = [mut EXCEPT ![v] = Idle]
    /\ notice' = [notice EXCEPT ![v] = "Application Data Reset"]
    /\ UNCHANGED <<expensesDocs, nextExpenseId, categoriesDocs, vendorsDocs, nextCategoryId,
                   nextVendorId, expensesCache, expensesPages, categoriesCache, vendorsCache, summaryCache,
                   incomeCache, recentCache, editingVars, amountField, dashboard>>

(* resetDataMutation: onError, at whichever request was rejected *)
resetDataError(v) ==
    /\ mut[v].op = "resetData"
    /\ mut' = [mut EXCEPT ![v] = Idle]
    /\ notice' = [notice EXCEPT ![v] = "Error Resetting Data"]
    /\ UNCHANGED <<storeVars, cacheVars, editingVars, amountField, dashboard>>

(* ---------------------- vendors page (remote) -------------------------- *)
VendorOps == {"addVendor", "updateVendor", "deleteVendor"}

(* the duplicate check of addVendorMutation / updateVendorMutation against
   the vendors the page has rendered; id = 0 when adding *)
VendorExists(v, id, name) ==
    \E i \in DOMAIN vendorsCache[v] :
        i # id /\ toLowerCase(vendorsCache[v][i]) = toLowerCase(name)

(* form.handleSubmit(onSubmit) of the vendors page, up to the first await
   of the mutation function *)
onSubmitVendor(v, name) ==
    /\ ~Pending(v)
    /\ editingVendorId[v] = 0 => nextVendorId <= MaxRecords
    /\ IF name = ""
       THEN /\ notice' = [notice EXCEPT ![v] = "Vendor name cannot be empty."]
            /\ UNCHANGED mut
       ELSE IF VendorExists(v, editingVendorId[v], name)
       THEN /\ notice' = [notice EXCEPT ![v] = "Vendor name already exists."]
            /\ UNCHANGED mut
       ELSE /\ mut' = [mut EXCEPT ![v] =
                   [Idle EXCEPT !.op = IF editingVendorId[v] # 0 THEN "updateVendor"
                                       ELSE "addVendor",
                                !.pc = "commit", !.id = editingVendorId[v],
                                !.name = name]]
            /\ UNCHANGED notice
    /\ UNCHANGED <<storeVars, cacheVars, editingVars, amountField, dashboard>>

(* addVendorMutation: addDoc and onSuccess *)
addVendorCommit(v) ==
    /\ mut[v].op = "addVendor"
    /\ vendorsDocs' = Put(vendorsDocs, nextVendorId, mut[v].name)
    /\ nextVendorId' = nextVendorId + 1
    /\ Invalidate(v, {"vendors"})
    /\ mut' = [mut EXCEPT ![v] = Idle]
    /\ notice' = [notice EXCEPT ![v] = "Vendor Added"]
    /\ UNCHANGED <<recentCache, expensesDocs, nextExpenseId, summaryDoc, incomeDoc, categoriesDocs,
                   nextCategoryId, expensesCache, expensesPages, categoriesCache, vendorsCache,
                   summaryCache, incomeCache, editingVars, amountField, dashboard>>

(* updateVendorMutation that also rewrites the vendor name in the expenses *)
updateVendorCommit_cascading(v) ==
    /\ mut[v].op = "updateVendor"
    /\ mut[v].id \in DOMAIN vendorsDocs
    /\ vendorsDocs' = [vendorsDocs EXCEPT ![mut[v].id] = mut[v].name]
    /\ expensesDocs' = [i \in DOMAIN expensesDocs |->
           IF expensesDocs[i].vendor = vendorsDocs[mut[v].id]
           THEN [expensesDocs[i] EXCEPT !.vendor = mut[v].name]
           ELSE expensesDocs[i]]
    /\ Invalidate(v, {"vendors"})
    /\ mut' = [mut EXCEPT ![v] = Idle]
    /\ notice' = [notice EXCEPT ![v] = "Vendor Updated"]
    /\ editingVendorId' = [editingVendorId EXCEPT ![v] = 0]
    /\ UNCHANGED <<recentCache, nextExpenseId, summaryDoc, incomeDoc, categoriesDocs,
                   nextCategoryId, nextVendorId, expensesCache, expensesPages, categoriesCache,
                   vendorsCache, summaryCache, incomeCache, editingCategoryId, localVars,
                   amountField, dashboard>>

(* updateVendorMutation: updateDoc and onSuccess *)
updateVendorCommit(v) ==
    /\ mut[v].op = "updateVendor"
    /\ mut[v].id \in DOMAIN vendorsDocs
    /\ vendorsDocs' = [vendorsDocs EXCEPT ![mut[v].id] = mut[v].name]
    /\ Invalidate(v, {"vendors"})
    /\ mut' = [mut EXCEPT ![v] = Idle]
    /\ notice' = [notice EXCEPT ![v] = "Vendor Updated"]
    /\ editingVendorId' = [editingVendorId EXCEPT ![v] = 0]
    /\ UNCHANGED <<recentCache, expensesDocs, nextExpenseId, summaryDoc, incomeDoc, categoriesDocs,
                   nextCategoryId, nextVendorId, expensesCache, expensesPages, categoriesCache,
                   vendorsCache, summaryCache, incomeCache, editingCategoryId, localVars,
                   amountField, dashboard>>

(* the Delete button of a listed vendor: deleteVendorMutation.mutate *)
deleteVendor(v, id) ==
    /\ ~Pending(v)
    /\ id \in DOMAIN vendorsCache[v]
    /\ editingVendorId[v] # id
    /\ mut' = [mut EXCEPT ![v] =
           [Idle EXCEPT !.op = "deleteVendor", !.pc = "check", !.id = id,
                        !.name = vendorsCache[v][id]]]
    /\ UNCHANGED <<storeVars, cacheVars, notice, editingVars, amountField, dashboard>>

(* deleteVendorMutation without the usage query *)
deleteVendorCheck_noUsageQuery(v) ==
    /\ mut[v].op = "deleteVendor"
    /\ mut[v].pc = "check"
    /\ mut' = [mut EXCEPT ![v].pc = "commit"]
    /\ UNCHANGED <<storeVars, cacheVars, notice, editingVars, amountField, dashboard>>

(* deleteVendorMutation: the usage query on the expenses collection *)
deleteVendorCheck(v) ==
    /\ mut[v].op = "deleteVendor"
    /\ mut[v].pc = "check"
    /\ IF \E e \in DOMAIN expensesDocs : expensesDocs[e].vendor = mut[v].name
       THEN /\ mut' = [mut EXCEPT ![v] = Idle]
            /\ notice' = [notice EXCEPT ![v] = "Cannot Delete Vendor"]
       ELSE /\ mut' = [mut EXCEPT ![v].pc = "commit"]
            /\ UNCHANGED notice
    /\ UNCHANGED <<storeVars, cacheVars, editingVars, amountField, dashboard>>

(* deleteVendorMutation: deleteDoc and onSuccess *)
deleteVendorCommit(v) ==
    /\ mut[v].op = "deleteVendor"
    /\ mut[v].pc = "commit"
    /\ vendorsDocs' = Remove(vendorsDocs, mut[v].id)
    /\ vendorsCache' = [vendorsCache EXCEPT ![v] = Remove(@, mut[v].id)]
    /\ Invalidate(v, {"vendors"})
    /\ mut' = [mut EXCEPT ![v] = Idle]
    /\ notice' = [notice EXCEPT ![v] = "Vendor Deleted"]
    /\ editingVendorId' = [editingVendorId EXCEPT ![v] = IF @ = mut[v].id THEN 0 ELSE @]
    /\ UNCHANGED <<recentCache, expensesDocs, nextExpenseId, summaryDoc, incomeDoc, categoriesDocs,
                   nextCategoryId, nextVendorId, expensesCache, expensesPages, categoriesCache,
                   summaryCache, incomeCache, editingCategoryId, localVars, amountField,
                   dashboard>>

(* a rejected write of a vendor mutation: onError *)
vendorMutationError(v) ==
    /\ mut[v].op \in VendorOps
    /\ mut[v].pc = "commit"
    /\ notice' = [notice EXCEPT ![v] =
           CASE mut[v].op = "addVendor" -> "Error Adding Vendor"
             [] mut[v].op = "updateVendor" -> "Error Updating Vendor"
             [] OTHER -> "Cannot Delete Vendor"]
    /\ mut' = [mut EXCEPT ![v] = Idle]
    /\ UNCHANGED <<storeVars, cacheVars, editingVars, amountField, dashboard>>

(* queryFn of the ["vendors"] query *)
fetchVendors(v) ==
    /\ "vendors" \in refetch[v]
    /\ vendorsCache' = [vendorsCache EXCEPT ![v] = vendorsDocs]
    /\ refetch' = [refetch EXCEPT ![v] = @ \ {"vendors"}]
    /\ UNCHANGED <<recentCache, storeVars, expensesCache, expensesPages, categoriesCache, summaryCache, incomeCache,
                   viewVars>>

startEditingVendor(v, id) ==
    /\ ~Pending(v)
    /\ id \in DOMAIN vendorsCache[v]
    /\ editingVendorId[v] # id
    /\ editingVendorId' = [editingVendorId EXCEPT ![v] = id]
    /\ UNCHANGED <<storeVars, cacheVars, mut, notice, editingCategoryId, localVars,
                   amountField, dashboard>>

cancelEditingVendor(v) ==
    /\ ~Pending(v)
    /\ editingVendorId[v] # 0
    /\ editingVendorId' = [editingVendorId EXCEPT ![v] = 0]
    /\ UNCHANGED <<storeVars, cacheVars, mut, notice, editingCategoryId, localVars,
                   amountField, dashboard>>

(* --------------------- categories page (remote) ------------------------ *)
CategoryOps == {"addCategory", "updateCategory", "deleteCategory"}

(* the duplicate check without the exclusion of the edited category *)
CategoryExists_includingSelf(v, id, name) ==
    \E i \in DOMAIN categoriesCache[v] :
        toLowerCase(categoriesCache[v][i]) = toLowerCase(name)

(* categories.some(...) of addCategoryMutation / updateCategoryMutation on
   the categories the page has rendered; id = 0 when adding *)
CategoryExists(v, id, name) ==
    \E i \in DOMAIN categoriesCache[v] :
        i # id /\ toLowerCase(categoriesCache[v][i]) = toLowerCase(name)

(* form.handleSubmit(onSubmit) of the categories page, up to the first
   await of the mutation function *)
onSubmitCategory(v, name) ==
    /\ ~Pending(v)
    /\ editingCategoryId[v] = 0 => nextCategoryId <= MaxRecords
    /\ IF name = ""
       THEN /\ notice' = [notice EXCEPT ![v] = "Category name cannot be empty."]
            /\ UNCHANGED mut
       ELSE IF editingCategoryId[v] # 0
       THEN IF CategoryExists(v, editingCategoryId[v], name)
            THEN /\ notice' = [notice EXCEPT ![v] = "Category name already exists."]
                 /\ UNCHANGED mut
            ELSE /\ mut' = [mut EXCEPT ![v] =
                        [Idle EXCEPT !.op = "updateCategory", !.pc = "commit",
                                     !.id = editingCategoryId[v], !.name = name]]
                 /\ UNCHANGED notice
       ELSE /\ mut' = [mut EXCEPT ![v] =
                   [Idle EXCEPT !.op = "addCategory", !.pc = "existing", !.name = name,
                                !.dup = CategoryExists(v, 0, name)]]
            /\ UNCHANGED notice
    /\ UNCHANGED <<storeVars, cacheVars, editingVars, amountField, dashboard>>

(* addCategoryMutation: the where("name", "==", name) query and the check
   that is made only when that query returns a document *)
addCategoryExisting(v) ==
    /\ mut[v].op = "addCategory"
    /\ mut[v].pc = "existing"
    /\ IF /\ \E i \in DOMAIN categoriesDocs : categoriesDocs[i] = mut[v].name
          /\ mut[v].dup
       THEN /\ mut' = [mut EXCEPT ![v] = Idle]
            /\ notice' = [notice EXCEPT ![v] = "Category name already exists."]
       ELSE /\ mut' = [mut EXCEPT ![v].pc = "commit"]
            /\ UNCHANGED notice
    /\ UNCHANGED <<storeVars, cacheVars, editingVars, amountField, dashboard>>

(* addCategoryMutation whose onSuccess does not invalidate the categories query *)
addCategoryCommit_noInvalidate(v) ==
    /\ mut[v].op = "addCategory"
    /\ mut[v].pc = "commit"
    /\ categoriesDocs' = Put(categoriesDocs, nextCategoryId, mut[v].name)
    /\ nextCategoryId' = nextCategoryId + 1
    /\ UNCHANGED refetch
    /\ mut' = [mut EXCEPT ![v] = Idle]
    /\ notice' = [notice EXCEPT ![v] = "Category Added"]
    /\ UNCHANGED <<recentCache, expensesDocs, nextExpenseId, summaryDoc, incomeDoc, vendorsDocs,
                   nextVendorId, expensesCache, expensesPages, categoriesCache, vendorsCache,
                   summaryCache, incomeCache, editingVars, amountField, dashboard>>

(* addCategoryMutation: addDoc and onSuccess *)
addCategoryCommit(v) ==
    /\ mut[v].op = "addCategory"
    /\ mut[v].pc = "commit"
    /\ categoriesDocs' = Put(categoriesDocs, nextCategoryId, mut[v].name)
    /\ nextCategoryId' = nextCategoryId + 1
    /\ Invalidate(v, {"categories"})
    /\ mut' = [mut EXCEPT ![v] = Idle]
    /\ notice' = [notice EXCEPT ![v] = "Category Added"]
    /\ UNCHANGED <<recentCache, expensesDocs, nextExpenseId, summaryDoc, incomeDoc, vendorsDocs,
                   nextVendorId, expensesCache, expensesPages, categoriesCache, vendorsCache,
                   summaryCache, incomeCache, editingVars, amountField, dashboard>>

(* updateCategoryMutation: updateDoc and onSuccess *)
updateCategoryCommit(v) ==
    /\ mut[v].op = "updateCategory"
    /\ mut[v].id \in DOMAIN categoriesDocs
    /\ categoriesDocs' = [categoriesDocs EXCEPT ![mut[v].id] = mut[v].name]
    /\ Invalidate(v, {"categories"})
    /\ mut' = [mut EXCEPT ![v] = Idle]
    /\ notice' = [notice EXCEPT ![v] = "Category Updated"]
    /\ editingCategoryId' = [editingCategoryId EXCEPT ![v] = 0]
    /\ UNCHANGED <<recentCache, expensesDocs, nextExpenseId, summaryDoc, incomeDoc, vendorsDocs,
                   nextCategoryId, nextVendorId, expensesCache, expensesPages, categoriesCache,
                   vendorsCache, summaryCache, incomeCache, editingVendorId, localVars,
                   amountField, dashboard>>

(* the Delete button of a listed category: deleteCategoryMutation.mutate *)
deleteCategory(v, id) ==
    /\ ~Pending(v)
    /\ id \in DOMAIN categoriesCache[v]
    /\ editingCategoryId[v] # id
    /\ mut' = [mut EXCEPT ![v] =
           [Idle EXCEPT !.op = "deleteCategory", !.pc = "check", !.id = id,
                        !.name = categoriesCache[v][id]]]
    /\ UNCHANGED <<storeVars, cacheVars, notice, editingVars, amountField, dashboard>>

(* deleteCategoryMutation: the usage query on the expenses collection *)
deleteCategoryCheck(v) ==
    /\ mut[v].op = "deleteCategory"
    /\ mut[v].pc = "check"
    /\ IF \E e \in DOMAIN expensesDocs : expensesDocs[e].category = mut[v].name
       THEN /\ mut' = [mut EXCEPT ![v] = Idle]
            /\ notice' = [notice EXCEPT ![v] = "Cannot Delete Category"]
       ELSE /\ mut' = [mut EXCEPT ![v].pc = "commit"]
            /\ UNCHANGED notice
    /\ UNCHANGED <<storeVars, cacheVars, editingVars, amountField, dashboard>>

(* deleteCategoryMutation: deleteDoc and onSuccess *)
deleteCategoryCommit(v) ==
    /\ mut[v].op = "deleteCategory"
    /\ mut[v].pc = "commit"
    /\ categoriesDocs' = Remove(categoriesDocs, mut[v].id)
    /\ categoriesCache' = [categoriesCache EXCEPT ![v] = Remove(@, mut[v].id)]
    /\ Invalidate(v, {"categories"})
    /\ mut' = [mut EXCEPT ![v] = Idle]
    /\ notice' = [notice EXCEPT ![v] = "Category Deleted"]
    /\ editingCategoryId' = [editingCategoryId EXCEPT ![v] = IF @ = mut[v].id THEN 0 ELSE @]
    /\ UNCHANGED <<recentCache, expensesDocs, nextExpenseId, summaryDoc, incomeDoc, vendorsDocs,
                   nextCategoryId, nextVendorId, expensesCache, expensesPages, vendorsCache,
                   summaryCache, incomeCache, editingVendorId, localVars, amountField,
                   dashboard>>

(* a rejected write of a category mutation: onError *)
categoryMutationError(v) ==
    /\ mut[v].op \in CategoryOps
    /\ mut[v].pc = "commit"
    /\ notice' = [notice EXCEPT ![v] =
           CASE mut[v].op = "addCategory" -> "Error Adding Category"
             [] mut[v].op = "updateCategory" -> "Error Updating Category"
             [] OTHER -> "Cannot Delete Category"]
    /\ mut' = [mut EXCEPT ![v] = Idle]
    /\ UNCHANGED <<storeVars, cacheVars, editingVars, amountField, dashboard>>

(* queryFn of the ["categories"] query *)
fetchCategories(v) ==
    /\ "categories" \in refetch[v]
    /\ categoriesCache' = [categoriesCache EXCEPT ![v] = categoriesDocs]
    /\ refetch' = [refetch EXCEPT ![v] = @ \ {"categories"}]
    /\ UNCHANGED <<recentCache, storeVars, expensesCache, expensesPages, vendorsCache, summaryCache, incomeCache,
                   viewVars>>

startEditingCategory(v, id) ==
    /\ ~Pending(v)
    /\ id \in DOMAIN categoriesCache[v]
    /\ editingCategoryId[v] # id
    /\ editingCategoryId' = [editingCategoryId EXCEPT ![v] = id]
    /\ UNCHANGED <<storeVars, cacheVars, mut, notice, editingVendorId, localVars,
                   amountField, dashboard>>

cancelEditingCategory(v) ==
    /\ ~Pending(v)
    /\ editingCategoryId[v] # 0
    /\ editingCategoryId' = [editingCategoryId EXCEPT ![v] = 0]
    /\ UNCHANGED <<storeVars, cacheVars, mut, notice, editingVendorId, localVars,
                   amountField, dashboard>>

(* a query that is refetched because it became stale: on window focus, on
   remount, or when the view is opened *)
refetchStale(v, key) ==
    /\ key \in {"expenses", "categories", "vendors"}
    /\ key \notin refetch[v]
    /\ refetch' = [refetch EXCEPT ![v] = @ \cup {key}]
    /\ UNCHANGED <<recentCache, storeVars, expensesCache, expensesPages, categoriesCache, vendorsCache,
                   summaryCache, incomeCache, viewVars>>

(* ----------------- categories page (localStorage) ---------------------- *)
(* localStorage.setItem by tab v: the value is stored and, when it differs
   from the stored one, every other tab with a mounted page is sent a storage
   event; own is what remains of the tab's own event queue *)
setItem(v, key, value, own) ==
    /\ localStorage' = [localStorage EXCEPT ![key] = value]
    /\ events' = [w \in Views |->
           IF w = v THEN own
           ELSE IF page[w] # "none" /\ localStorage[key] # value
                THEN Append(events[w], [key |-> key, newValue |-> value])
                ELSE events[w]]

(* the storage events that a tab with a mounted page is sent for the writes
   of another tab, one for each write that changes the stored value cur *)
RECURSIVE Notify(_, _, _, _)
Notify(key, cur, writes, queue) ==
    IF writes = <<>> THEN queue
    ELSE Notify(key, Head(writes), Tail(writes),
                IF cur # Head(writes)
                THEN Append(queue, [key |-> key, newValue |-> Head(writes)])
                ELSE queue)

(* the writes of tab v to key, in order *)
setItems(v, key, writes, own) ==
    /\ localStorage' = [localStorage EXCEPT ![key] =
           IF writes = <<>> THEN @ ELSE writes[Len(writes)]]
    /\ events' = [w \in Views |->
           IF w = v THEN own
           ELSE IF page[w] # "none" THEN Notify(key, localStorage[key], writes, events[w])
                ELSE events[w]]

(* the persist effect without its isLoading guard *)
persistEffect_unguarded(list, isLoading) == <<stringify(list)>>

(* the persist effect of a render: if (!isLoading) setItem(key,
   JSON.stringify(list)); the values it writes *)
persistEffect(list, isLoading) ==
    IF isLoading THEN <<>> ELSE <<stringify(list)>>

KeyOf(p) ==
    IF p = "categories" THEN LOCAL_STORAGE_KEY_CATEGORIES ELSE LOCAL_STORAGE_KEY_VENDORS

(* list.length + 1 *)
NewId_length(list) == Cardinality(DOMAIN list) + 1

(* Math.max(...list.map(c => c.id)) + 1, or 1 for the empty list *)
NewId(list) ==
    IF DOMAIN list = {} THEN 1
    ELSE (CHOOSE i \in DOMAIN list : \A j \in DOMAIN list : j <= i) + 1

(* mounting the categories or the vendors page in tab v: the first render
   with the empty list and isLoading true, its load effect and its persist
   effect, then the persist effect of the render with the loaded list *)
openPage(v, p) ==
    /\ backend = "local"
    /\ page[v] # p
    /\ page' = [page EXCEPT ![v] = p]
    /\ LET loaded == parse(localStorage[KeyOf(p)])
       IN /\ categories' = [categories EXCEPT ![v] =
                  IF p = "categories" THEN loaded ELSE EmptyDocs]
          /\ vendors' = [vendors EXCEPT ![v] =
                  IF p = "vendors" THEN loaded ELSE EmptyDocs]
          /\ setItems(v, KeyOf(p),
                      persistEffect(EmptyDocs, TRUE) \o persistEffect(loaded, FALSE), <<>>)
    /\ editingCategoryId' = [editingCategoryId EXCEPT ![v] = 0]
    /\ editingVendorId' = [editingVendorId EXCEPT ![v] = 0]
    /\ notice' = [notice EXCEPT ![v] = ""]
    /\ UNCHANGED <<storeVars, cacheVars, mut, amountField, dashboard, backend, revision, expenses,
                   savedExpenses>>

(* onSubmit of the local categories page with the persist effect *)
onSubmitCategoryLocal(v, name) ==
    /\ backend = "local"
    /\ page[v] = "categories"
    /\ LET existingCategory ==
               \E i \in DOMAIN categories[v] :
                   /\ toLowerCase(categories[v][i]) = toLowerCase(name)
                   /\ i # editingCategoryId[v]
           updatedCategories ==
               IF editingCategoryId[v] # 0
               THEN [i \in DOMAIN categories[v] |->
                        IF i = editingCategoryId[v] THEN name ELSE categories[v][i]]
               ELSE Put(categories[v], NewId(categories[v]), name)
       IN IF name = ""
          THEN /\ notice' = [notice EXCEPT ![v] = "Category name cannot be empty."]
               /\ UNCHANGED <<categories, editingCategoryId, localStorage, events>>
          ELSE IF existingCategory
          THEN /\ notice' = [notice EXCEPT ![v] = "Category name already exists."]
               /\ UNCHANGED <<categories, editingCategoryId, localStorage, events>>
          ELSE /\ editingCategoryId[v] = 0 => NewId(categories[v]) <= MaxRecords
               /\ categories' = [categories EXCEPT ![v] = updatedCategories]
               /\ notice' = [notice EXCEPT ![v] =
                      IF editingCategoryId[v] # 0 THEN "Category Updated"
                      ELSE "Category Added"]
               /\ editingCategoryId' = [editingCategoryId EXCEPT ![v] = 0]
               /\ setItem(v, LOCAL_STORAGE_KEY_CATEGORIES, stringify(updatedCategories),
                          events[v])
    /\ UNCHANGED <<storeVars, cacheVars, mut, amountField, dashboard, backend, revision, expenses, page,
                   vendors, savedExpenses, editingVendorId>>

(* deleteCategory of the local categories page with the persist effect *)
deleteCategoryLocal(v, id) ==
    /\ backend = "local"
    /\ page[v] = "categories"
    /\ id \in DOMAIN categories[v]
    /\ editingCategoryId[v] # id
    /\ IF savedExpenses.kind = "garbage"
       THEN /\ notice' = [notice EXCEPT ![v] = "Error checking usage"]
            /\ UNCHANGED <<categories, localStorage, events>>
       ELSE IF \E e \in DOMAIN parse(savedExpenses) :
                   parse(savedExpenses)[e].category = categories[v][id]
       THEN /\ notice' = [notice EXCEPT ![v] = "Cannot Delete Category"]
            /\ UNCHANGED <<categories, localStorage, events>>
       ELSE /\ categories' = [categories EXCEPT ![v] = Remove(@, id)]
            /\ notice' = [notice EXCEPT ![v] = "Category Deleted"]
            /\ setItem(v, LOCAL_STORAGE_KEY_CATEGORIES,
                       stringify(Remove(categories[v], id)), events[v])
    /\ UNCHANGED <<storeVars, cacheVars, mut, amountField, dashboard, backend, revision, expenses, page,
                   vendors, savedExpenses, editingVendorId, editingCategoryId>>

startEditingCategoryLocal(v, id) ==
    /\ backend = "local"
    /\ page[v] = "categories"
    /\ id \in DOMAIN categories[v]
    /\ editingCategoryId[v] # id
    /\ editingCategoryId' = [editingCategoryId EXCEPT ![v] = id]
    /\ UNCHANGED <<storeVars, cacheVars, mut, notice, editingVendorId, localVars,
                   amountField, dashboard>>

cancelEditingCategoryLocal(v) ==
    /\ backend = "local"
    /\ page[v] = "categories"
    /\ editingCategoryId[v] # 0
    /\ editingCategoryId' = [editingCategoryId EXCEPT ![v] = 0]
    /\ UNCHANGED <<storeVars, cacheVars, mut, notice, editingVendorId, localVars,
                   amountField, dashboard>>

(* handleStorageChange without the test of event.key *)
handleStorageChange_anyKey(v) ==
    /\ events[v] # <<>>
    /\ LET event == Head(events[v])
           updated == parse(event.newValue)
       IN IF page[v] = "categories"
          THEN /\ categories' = [categories EXCEPT ![v] = updated]
               /\ setItem(v, LOCAL_STORAGE_KEY_CATEGORIES, stringify(updated), Tail(events[v]))
               /\ UNCHANGED vendors
          ELSE IF page[v] = "vendors"
          THEN /\ vendors' = [vendors EXCEPT ![v] = updated]
               /\ setItem(v, LOCAL_STORAGE_KEY_VENDORS, stringify(updated), Tail(events[v]))
               /\ UNCHANGED categories
          ELSE /\ events' = [events EXCEPT ![v] = Tail(@)]
               /\ UNCHANGED <<categories, vendors, localStorage>>
    /\ UNCHANGED <<storeVars, cacheVars, mut, notice, amountField, dashboard, backend,
                   revision, expenses, page, savedExpenses, editingVendorId,
                   editingCategoryId>>

(* handleStorageChange of the mounted page for the oldest pending storage
   event, with the persist effect of the render that follows it *)
handleStorageChange(v) ==
    /\ events[v] # <<>>
    /\ LET event == Head(events[v])
           updated == parse(event.newValue)
       IN IF page[v] = "categories" /\ event.key = LOCAL_STORAGE_KEY_CATEGORIES
          THEN /\ categories' = [categories EXCEPT ![v] = updated]
               /\ setItem(v, event.key, stringify(updated), Tail(events[v]))
               /\ UNCHANGED vendors
          ELSE IF page[v] = "vendors" /\ event.key = LOCAL_STORAGE_KEY_VENDORS
          THEN /\ vendors' = [vendors EXCEPT ![v] = updated]
               /\ setItem(v, event.key, stringify(updated), Tail(events[v]))
               /\ UNCHANGED categories
          ELSE /\ events' = [events EXCEPT ![v] = Tail(@)]
               /\ UNCHANGED <<categories, vendors, localStorage>>
    /\ UNCHANGED <<storeVars, cacheVars, mut, notice, amountField, dashboard, backend, revision, expenses,
                   page, savedExpenses, editingVendorId, editingCategoryId>>

(* ------------------- vendors page (localStorage) ----------------------- *)
(* onSubmit of the local vendors page with the persist effect *)
onSubmitVendorLocal(v, name) ==
    /\ backend = "local"
    /\ page[v] = "vendors"
    /\ LET existingVendor ==
               \E i \in DOMAIN vendors[v] :
                   /\ toLowerCase(vendors[v][i]) = toLowerCase(name)
                   /\ i # editingVendorId[v]
           nameChanged ==
               \/ editingVendorId[v] = 0
               \/ editingVendorId[v] \notin DOMAIN vendors[v]
               \/ toLowerCase(vendors[v][editingVendorId[v]]) # toLowerCase(name)
           updatedVendors ==
               IF editingVendorId[v] # 0
               THEN [i \in DOMAIN vendors[v] |->
                        IF i = editingVendorId[v] THEN name ELSE vendors[v][i]]
               ELSE Put(vendors[v], NewId(vendors[v]), name)
       IN IF name = ""
          THEN /\ notice' = [notice EXCEPT ![v] = "Vendor name cannot be empty."]
               /\ UNCHANGED <<vendors, editingVendorId, localStorage, events>>
          ELSE IF existingVendor /\ nameChanged
          THEN /\ notice' = [notice EXCEPT ![v] = "Vendor name already exists."]
               /\ UNCHANGED <<vendors, editingVendorId, localStorage, events>>
          ELSE /\ editingVendorId[v] = 0 => NewId(vendors[v]) <= MaxRecords
               /\ vendors' = [vendors EXCEPT ![v] = updatedVendors]
               /\ notice' = [notice EXCEPT ![v] =
                      IF editingVendorId[v] # 0 THEN "Vendor Updated"
                      ELSE "Vendor Added"]
               /\ editingVendorId' = [editingVendorId EXCEPT ![v] = 0]
               /\ setItem(v, LOCAL_STORAGE_KEY_VENDORS, stringify(updatedVendors),
                          events[v])
    /\ UNCHANGED <<storeVars, cacheVars, mut, amountField, dashboard, backend, revision, expenses, page,
                   categories, savedExpenses, editingCategoryId>>

(* deleteVendor of the local vendors page with the persist effect *)
deleteVendorLocal(v, id) ==
    /\ backend = "local"
    /\ page[v] = "vendors"
    /\ id \in DOMAIN vendors[v]
    /\ editingVendorId[v] # id
    /\ IF savedExpenses.kind = "garbage"
       THEN /\ notice' = [notice EXCEPT ![v] = "Error checking usage"]
            /\ UNCHANGED <<vendors, localStorage, events>>
       ELSE IF \E e \in DOMAIN parse(savedExpenses) :
                   parse(savedExpenses)[e].vendor = vendors[v][id]
       THEN /\ notice' = [notice EXCEPT ![v] = "Cannot Delete Vendor"]
            /\ UNCHANGED <<vendors, localStorage, events>>
       ELSE /\ vendors' = [vendors EXCEPT ![v] = Remove(@, id)]
            /\ notice' = [notice EXCEPT ![v] = "Vendor Deleted"]
            /\ setItem(v, LOCAL_STORAGE_KEY_VENDORS,
                       stringify(Remove(vendors[v], id)), events[v])
    /\ UNCHANGED <<storeVars, cacheVars, mut, amountField, dashboard, backend, revision, expenses, page,
                   categories, savedExpenses, editingVendorId, editingCategoryId>>

startEditingVendorLocal(v, id) ==
    /\ backend = "local"
    /\ page[v] = "vendors"
    /\ id \in DOMAIN vendors[v]
    /\ editingVendorId[v] # id
    /\ editingVendorId' = [editingVendorId EXCEPT ![v] = id]
    /\ UNCHANGED <<storeVars, cacheVars, mut, notice, editingCategoryId, localVars,
                   amountField, dashboard>>

cancelEditingVendorLocal(v) ==
    /\ backend = "local"
    /\ page[v] = "vendors"
    /\ editingVendorId[v] # 0
    /\ editingVendorId' = [editingVendorId EXCEPT ![v] = 0]
    /\ UNCHANGED <<storeVars, cacheVars, mut, notice, editingCategoryId, localVars,
                   amountField, dashboard>>

(* ---------------------- dashboard (localStorage) ----------------------- *)
(* defaultSummaryData.income / mockSummaryData.income, in whole units *)
defaultIncome == 5000

(* mockExpensesData, amounts in cents *)
mockExpensesData ==
    (1 :> [date |-> 28, amount |-> 7550, category |-> "Groceries", vendor |-> "SuperMart"]) @@
    (2 :> [date |-> 27, amount |-> 12000, category |-> "Utilities", vendor |-> "City Power"]) @@
    (3 :> [date |-> 26, amount |-> 4525, category |-> "Dining Out", vendor |-> "Pizza Place"]) @@
    (4 :> [date |-> 25, amount |-> 5000, category |-> "Transport", vendor |-> "Gas Station"]) @@
    (5 :> [date |-> 24, amount |-> 3000, category |-> "Entertainment", vendor |-> "Cinema"])

(* the summaryData memo of the local dashboard, in cents *)
summaryDataLocal(list) ==
    [income |-> 100 * defaultIncome,
     expenses |-> SumAmounts(list),
     balance |-> 100 * defaultIncome - SumAmounts(list)]

(* mounting the local dashboard in tab v.  Revision "effectLoad" starts with
   [] and loads in an effect (nothing stored or unparsable text gives []);
   revision "lazyState" reads storage in the useState initializer (nothing
   stored or unparsable text gives the mock data) *)
openDashboardLocal(v) ==
    /\ backend = "local"
    /\ page[v] = "none"
    /\ page' = [page EXCEPT ![v] = "dashboard"]
    /\ expenses' = [expenses EXCEPT ![v] =
           IF revision = "effectLoad" THEN parse(savedExpenses)
           ELSE IF savedExpenses.kind = "json" THEN savedExpenses.list
           ELSE mockExpensesData]
    /\ dashboard' = [dashboard EXCEPT ![v] = summaryDataLocal(expenses'[v])]
    /\ UNCHANGED <<storeVars, cacheVars, mut, notice, amountField, editingVendorId,
                   editingCategoryId, backend, revision, categories, vendors,
                   localStorage, savedExpenses, events>>

(* a page of another document stores value under the expenses key (NoItem:
   removes the key); every tab with the dashboard mounted is sent a storage
   event when the stored value changes *)
storageEventExpenses(value) ==
    /\ backend = "local"
    /\ \A w \in Views : Len(events[w]) < MaxEvents
    /\ savedExpenses' = value
    /\ events' = [w \in Views |->
           IF page[w] = "dashboard" /\ savedExpenses # value
           THEN Append(events[w], [key |-> LOCAL_STORAGE_KEY_EXPENSES, newValue |-> value])
           ELSE events[w]]
    /\ UNCHANGED <<storeVars, cacheVars, mut, notice, amountField, dashboard,
                   editingVendorId, editingCategoryId, backend, revision, expenses, page,
                   categories, vendors, localStorage>>

(* handleStorageChange of the local dashboard for the oldest pending event.
   "effectLoad": the handler compares the new list with the expenses of the
   render that registered it, which is [], and only then sets the state;
   "lazyState": the handler ignores a null newValue and keeps the list when
   the text does not parse *)
handleStorageChangeDashboard(v) ==
    /\ backend = "local"
    /\ page[v] = "dashboard"
    /\ events[v] # <<>>
    /\ LET event == Head(events[v])
           updatedExpenses == parse(event.newValue)
       IN expenses' = [expenses EXCEPT ![v] =
              IF event.key # LOCAL_STORAGE_KEY_EXPENSES THEN @
              ELSE IF revision = "effectLoad"
                   THEN IF stringify(EmptyDocs) # stringify(updatedExpenses)
                        THEN updatedExpenses ELSE @
              ELSE IF event.newValue.kind = "json" THEN updatedExpenses ELSE @]
    /\ events' = [events EXCEPT ![v] = Tail(@)]
    /\ dashboard' = [dashboard EXCEPT ![v] = summaryDataLocal(expenses'[v])]
    /\ UNCHANGED <<storeVars, cacheVars, mut, notice, amountField, editingVendorId,
                   editingCategoryId, backend, revision, page, categories, vendors,
                   localStorage, savedExpenses>>

(* ---------- one client, one operation at a time (expenses) ------------- *)
(* the one client of the sequential specifications *)
TheUser == CHOOSE v \in Views : \A w \in Views : v <= w

NextExpenses ==
    \/ \E a \in AmountInputs, c \in {"", "A"}, w \in {"", NO_VENDOR_VALUE} :
           Quiet /\ onSubmitExpense(TheUser, a, c, w)
    \/ \E id \in 1..MaxExpenses : Quiet /\ deleteExpense(TheUser, id)
    \/ ensureSummaryDocExistsGet(TheUser)
    \/ ensureSummaryDocExistsSet(TheUser)
    \/ addExpenseCommit(TheUser)
    \/ deleteExpenseCommit(TheUser)
    \/ expenseMutationError(TheUser)
    \/ fetchExpenses(TheUser)
    \/ fetchRecentExpenses(TheUser)
    \/ Quiet /\ mountDashboard(TheUser)
    \/ fetchSummaryData(TheUser)
    \/ createSummaryData(TheUser)
    \/ fetchIncomeSetting(TheUser)
    \/ createIncomeSetting(TheUser)
    \/ \E i \in IncomeInputs : Quiet /\ handleIncomeUpdate(TheUser, i)
    \/ updateIncomeCommit(TheUser)
    \/ updateIncomeError(TheUser)

SpecExpenses == InitExpenses /\ [][NextExpenses]_vars


(* ------ one client, one operation at a time (vendors, categories) ------ *)
(* a tab that only listens *)
OtherTab == CHOOSE v \in Views : v # TheUser

InputNames == Names \cup {""}

Garbage == [kind |-> "garbage", list |-> EmptyDocs]

(* the empty string stored under a key: getItem returns "", which is falsy *)
EmptyText == [kind |-> "empty", list |-> EmptyDocs]

(* JSON.parse of the stored text throws *)
parseThrows(item) == item.kind \in {"garbage", "empty"}

(* one stored expense, of category "A" and vendor "A" *)
OneExpense == (1 :> [date |-> Today, amount |-> 1, category |-> "A", vendor |-> "A"])

(* the client works on the page p of the remote variant *)
On(p) == backend = "remote" /\ page[TheUser] = p /\ Quiet

(* one category "A" and one vendor "A" are stored; in the remote variant one
   expense uses them and the client has the categories or the vendors page
   open, in the local variant the stored expenses are absent, one expense
   that uses them, or text that does not parse *)
InitManage ==
    /\ backend \in {"remote", "local"}
    /\ revision = "lazyCreate"
    /\ incomeDoc = NoIncome
    /\ IF backend = "remote"
       THEN /\ expensesDocs = OneExpense
            /\ nextExpenseId = 2
            /\ summaryDoc = [exists |-> TRUE, totalExpenses |-> 1, expenseCount |-> 1]
            /\ categoriesDocs = (1 :> "A")
            /\ vendorsDocs = (1 :> "A")
            /\ nextCategoryId = 2
            /\ nextVendorId = 2
            /\ \E p \in {"categories", "vendors"} : page = [v \in Views |-> p]
            /\ expenses = [v \in Views |-> EmptyDocs]
            /\ categories = [v \in Views |-> EmptyDocs]
            /\ vendors = [v \in Views |-> EmptyDocs]
            /\ localStorage = [k \in LocalKeys |-> NoItem]
            /\ savedExpenses = NoItem
            /\ events = [v \in Views |-> <<>>]
       ELSE /\ expensesDocs = EmptyDocs
            /\ nextExpenseId = 1
            /\ summaryDoc = NoSummary
            /\ categoriesDocs = EmptyDocs
            /\ vendorsDocs = EmptyDocs
            /\ nextCategoryId = 1
            /\ nextVendorId = 1
            /\ page = [v \in Views |-> "none"]
            /\ expenses = [v \in Views |-> EmptyDocs]
            /\ categories = [v \in Views |-> EmptyDocs]
            /\ vendors = [v \in Views |-> EmptyDocs]
            /\ localStorage = [k \in LocalKeys |-> stringify((1 :> "A"))]
            /\ savedExpenses \in {NoItem, stringify(OneExpense), Garbage, EmptyText}
            /\ events = [v \in Views |-> <<>>]
    /\ InitViews

NextManage ==
    \/ \E n \in InputNames : On("vendors") /\ onSubmitVendor(TheUser, n)
    \/ addVendorCommit(TheUser)
    \/ updateVendorCommit(TheUser)
    \/ \E id \in 1..(MaxRecords + 1) : On("vendors") /\ deleteVendor(TheUser, id)
    \/ deleteVendorCheck(TheUser)
    \/ deleteVendorCommit(TheUser)
    \/ vendorMutationError(TheUser)
    \/ fetchVendors(TheUser)
    \/ \E id \in 1..(MaxRecords + 1) : On("vendors") /\ startEditingVendor(TheUser, id)
    \/ On("vendors") /\ cancelEditingVendor(TheUser)
    \/ \E n \in InputNames : On("categories") /\ onSubmitCategory(TheUser, n)
    \/ addCategoryExisting(TheUser)
    \/ addCategoryCommit(TheUser)
    \/ updateCategoryCommit(TheUser)
    \/ \E id \in 1..(MaxRecords + 1) : On("categories") /\ deleteCategory(TheUser, id)
    \/ deleteCategoryCheck(TheUser)
    \/ deleteCategoryCommit(TheUser)
    \/ categoryMutationError(TheUser)
    \/ fetchCategories(TheUser)
    \/ \E id \in 1..(MaxRecords + 1) : On("categories") /\ startEditingCategory(TheUser, id)
    \/ On("categories") /\ cancelEditingCategory(TheUser)
    \/ \E p \in {"categories", "vendors"} : Quiet /\ openPage(TheUser, p)
    \/ \E p \in {"categories", "vendors"} :
           Quiet /\ page[OtherTab] = "none" /\ openPage(OtherTab, p)
    \/ \E n \in InputNames : Quiet /\ onSubmitCategoryLocal(TheUser, n)
    \/ \E id \in 1..(MaxRecords + 1) : Quiet /\ deleteCategoryLocal(TheUser, id)
    \/ \E id \in 1..(MaxRecords + 1) : Quiet /\ startEditingCategoryLocal(TheUser, id)
    \/ Quiet /\ cancelEditingCategoryLocal(TheUser)
    \/ \E n \in InputNames : Quiet /\ onSubmitVendorLocal(TheUser, n)
    \/ \E id \in 1..(MaxRecords + 1) : Quiet /\ deleteVendorLocal(TheUser, id)
    \/ \E id \in 1..(MaxRecords + 1) : Quiet /\ startEditingVendorLocal(TheUser, id)
    \/ Quiet /\ cancelEditingVendorLocal(TheUser)
    \/ \E v \in Views : handleStorageChange(v)

SpecManage == InitManage /\ [][NextManage]_vars

(* ------- one client, one operation at a time (dashboard, reset) -------- *)
(* either revision of the dashboard; no expense or one expense, with the
   summary document absent (only when nothing was ever recorded) or exact *)
InitDashboard ==
    /\ revision \in {"lazyCreate", "reset"}
    /\ \/ /\ expensesDocs = EmptyDocs
          /\ nextExpenseId = 1
          /\ summaryDoc \in {NoSummary,
                             [exists |-> TRUE, totalExpenses |-> 0, expenseCount |-> 0]}
       \/ /\ expensesDocs = OneExpense
          /\ nextExpenseId = 2
          /\ summaryDoc = [exists |-> TRUE, totalExpenses |-> 1, expenseCount |-> 1]
    /\ incomeDoc \in {NoIncome, [exists |-> TRUE, amount |-> 3]}
    /\ categoriesDocs = (1 :> "A")
    /\ vendorsDocs = (1 :> "A")
    /\ nextCategoryId = 2
    /\ nextVendorId = 2
    /\ backend = "remote"
    /\ NoLocal
    /\ InitViews

NextDashboard ==
    \/ \E a \in {"0", "2"} : Quiet /\ onSubmitExpense(TheUser, a, "A", NO_VENDOR_VALUE)
    \/ \E id \in 1..MaxExpenses : Quiet /\ deleteExpense(TheUser, id)
    \/ ensureSummaryDocExistsGet(TheUser)
    \/ ensureSummaryDocExistsSet(TheUser)
    \/ addExpenseCommit(TheUser)
    \/ deleteExpenseCommit(TheUser)
    \/ expenseMutationError(TheUser)
    \/ fetchExpenses(TheUser)
    \/ fetchRecentExpenses(TheUser)
    \/ Quiet /\ mountDashboard(TheUser)
    \/ revision = "lazyCreate" /\ fetchSummaryData(TheUser)
    \/ revision = "lazyCreate" /\ createSummaryData(TheUser)
    \/ revision = "lazyCreate" /\ fetchIncomeSetting(TheUser)
    \/ revision = "lazyCreate" /\ createIncomeSetting(TheUser)
    \/ fetchSummaryDataNullable(TheUser)
    \/ fetchIncomeSettingNullable(TheUser)
    \/ \E i \in IncomeInputs : Quiet /\ handleIncomeUpdate(TheUser, i)
    \/ revision = "lazyCreate" /\ updateIncomeCommit(TheUser)
    \/ updateIncomeCommitInvalidating(TheUser)
    \/ updateIncomeError(TheUser)
    \/ Quiet /\ handleResetData(TheUser)
    \/ deleteCollectionGetDocs(TheUser)
    \/ deleteCollectionCommit(TheUser)
    \/ resetDataCommit(TheUser)
    \/ resetDataError(TheUser)

SpecDashboard == InitDashboard /\ [][NextDashboard]_vars

(* ---- one client, one operation at a time (every remote mutation) ------ *)
(* the stores of InitDashboard, with the client working on the expenses page
   and the dashboard, on the vendors page, or on the categories page *)
InitRefresh ==
    /\ revision \in {"lazyCreate", "reset"}
    /\ \/ /\ expensesDocs = EmptyDocs
          /\ nextExpenseId = 1
          /\ summaryDoc \in {NoSummary,
                             [exists |-> TRUE, totalExpenses |-> 0, expenseCount |-> 0]}
       \/ /\ expensesDocs = OneExpense
          /\ nextExpenseId = 2
          /\ summaryDoc = [exists |-> TRUE, totalExpenses |-> 1, expenseCount |-> 1]
    /\ incomeDoc \in {NoIncome, [exists |-> TRUE, amount |-> 3]}
    /\ categoriesDocs = (1 :> "A")
    /\ vendorsDocs = (1 :> "A")
    /\ nextCategoryId = 2
    /\ nextVendorId = 2
    /\ backend = "remote"
    /\ \E p \in {"expenses", "vendors", "categories"} : page = [v \in Views |-> p]
    /\ expenses = [v \in Views |-> EmptyDocs]
    /\ categories = [v \in Views |-> EmptyDocs]
    /\ vendors = [v \in Views |-> EmptyDocs]
    /\ localStorage = [k \in LocalKeys |-> NoItem]
    /\ savedExpenses = NoItem
    /\ events = [v \in Views |-> <<>>]
    /\ InitViews

NextRefresh ==
    \/ \E a \in {"0", "2"} :
           On("expenses") /\ onSubmitExpense(TheUser, a, "A", NO_VENDOR_VALUE)
    \/ \E id \in 1..MaxExpenses : On("expenses") /\ deleteExpense(TheUser, id)
    \/ ensureSummaryDocExistsGet(TheUser)
    \/ ensureSummaryDocExistsSet(TheUser)
    \/ addExpenseCommit(TheUser)
    \/ deleteExpenseCommit(TheUser)
    \/ expenseMutationError(TheUser)
    \/ fetchExpenses(TheUser)
    \/ fetchRecentExpenses(TheUser)
    \/ On("expenses") /\ mountDashboard(TheUser)
    \/ revision = "lazyCreate" /\ fetchSummaryData(TheUser)
    \/ revision = "lazyCreate" /\ createSummaryData(TheUser)
    \/ revision = "lazyCreate" /\ fetchIncomeSetting(TheUser)
    \/ revision = "lazyCreate" /\ createIncomeSetting(TheUser)
    \/ fetchSummaryDataNullable(TheUser)
    \/ fetchIncomeSettingNullable(TheUser)
    \/ On("expenses") /\ handleIncomeUpdate(TheUser, "0")
    \/ revision = "lazyCreate" /\ updateIncomeCommit(TheUser)
    \/ updateIncomeCommitInvalidating(TheUser)
    \/ On("expenses") /\ handleResetData(TheUser)
    \/ deleteCollectionGetDocs(TheUser)
    \/ deleteCollectionCommit(TheUser)
    \/ resetDataCommit(TheUser)
    \/ \E n \in {"", "A", "B"} : On("vendors") /\ onSubmitVendor(TheUser, n)
    \/ addVendorCommit(TheUser)
    \/ updateVendorCommit(TheUser)
    \/ \E id \in 1..MaxRecords : On("vendors") /\ deleteVendor(TheUser, id)
    \/ deleteVendorCheck(TheUser)
    \/ deleteVendorCommit(TheUser)
    \/ fetchVendors(TheUser)
    \/ On("vendors") /\ startEditingVendor(TheUser, 1)
    \/ \E n \in {"", "A", "B"} : On("categories") /\ onSubmitCategory(TheUser, n)
    \/ addCategoryExisting(TheUser)
    \/ addCategoryCommit(TheUser)
    \/ updateCategoryCommit(TheUser)
    \/ \E id \in 1..MaxRecords : On("categories") /\ deleteCategory(TheUser, id)
    \/ deleteCategoryCheck(TheUser)
    \/ deleteCategoryCommit(TheUser)
    \/ fetchCategories(TheUser)
    \/ On("categories") /\ startEditingCategory(TheUser, 1)
    \/ expenseMutationError(TheUser)
    \/ updateIncomeError(TheUser)
    \/ vendorMutationError(TheUser)
    \/ categoryMutationError(TheUser)

SpecRefresh == InitRefresh /\ [][NextRefresh]_vars

(* ------- one view adds expenses while another resets the data --------- *)
InitResetRace == InitDashboard /\ revision = "reset"

NextResetRace ==
    \/ onSubmitExpense(TheUser, "2", "A", NO_VENDOR_VALUE)
    \/ ensureSummaryDocExistsGet(TheUser)
    \/ ensureSummaryDocExistsSet(TheUser)
    \/ addExpenseCommit(TheUser)
    \/ expenseMutationError(TheUser)
    \/ fetchExpenses(TheUser)
    \/ handleResetData(OtherTab)
    \/ deleteCollectionGetDocs(OtherTab)
    \/ deleteCollectionCommit(OtherTab)
    \/ resetDataCommit(OtherTab)
    \/ resetDataError(OtherTab)
    \/ fetchSummaryDataNullable(OtherTab)

SpecResetRace == InitResetRace /\ [][NextResetRace]_vars

(* ------ two tabs of the local variant on the same collection ----------- *)
(* both tabs have mounted the categories page, or both the vendors page, over
   a stored empty list; nothing else is stored *)
InitTabs ==
    /\ expensesDocs = EmptyDocs
    /\ nextExpenseId = 1
    /\ summaryDoc = NoSummary
    /\ incomeDoc = NoIncome
    /\ categoriesDocs = EmptyDocs
    /\ vendorsDocs = EmptyDocs
    /\ nextCategoryId = 1
    /\ nextVendorId = 1
    /\ backend = "local"
    /\ revision = "lazyCreate"
    /\ \E p \in {"categories", "vendors"} :
           /\ page = [v \in Views |-> p]
           /\ localStorage = [k \in LocalKeys |->
                  IF k = KeyOf(p) THEN stringify(EmptyDocs) ELSE NoItem]
    /\ expenses = [v \in Views |-> EmptyDocs]
    /\ categories = [v \in Views |-> EmptyDocs]
    /\ vendors = [v \in Views |-> EmptyDocs]
    /\ savedExpenses = NoItem
    /\ events = [v \in Views |-> <<>>]
    /\ InitViews

(* each tab adds at most one record; storage events are handled one by one *)
NextTabs ==
    \E v \in Views :
        \/ \E n \in Names : notice[v] = "" /\ onSubmitCategoryLocal(v, n)
        \/ \E n \in Names : notice[v] = "" /\ onSubmitVendorLocal(v, n)
        \/ handleStorageChange(v)

(* the event loop of a tab dispatches every queued storage event *)
SpecTabs ==
    InitTabs /\ [][NextTabs]_vars /\ \A v \in Views : WF_vars(handleStorageChange(v))

(* ---- two tabs of the local variant edit and delete the same records ---- *)
(* both tabs show the stored list of one record, which no expense uses; one
   tab edits, the other tab adds and deletes, and a user acts when every
   storage event has been handled *)
InitEditing ==
    /\ expensesDocs = EmptyDocs
    /\ nextExpenseId = 1
    /\ summaryDoc = NoSummary
    /\ incomeDoc = NoIncome
    /\ categoriesDocs = EmptyDocs
    /\ vendorsDocs = EmptyDocs
    /\ nextCategoryId = 1
    /\ nextVendorId = 1
    /\ backend = "local"
    /\ revision = "lazyCreate"
    /\ \E p \in {"categories", "vendors"} :
           /\ page = [v \in Views |-> p]
           /\ localStorage = [k \in LocalKeys |->
                  IF k = KeyOf(p) THEN stringify((1 :> "A")) ELSE NoItem]
           /\ categories = [v \in Views |-> IF p = "categories" THEN (1 :> "A") ELSE EmptyDocs]
           /\ vendors = [v \in Views |-> IF p = "vendors" THEN (1 :> "A") ELSE EmptyDocs]
    /\ expenses = [v \in Views |-> EmptyDocs]
    /\ savedExpenses = NoItem
    /\ events = [v \in Views |-> <<>>]
    /\ InitViews

NextEditing ==
    \/ /\ \A w \in Views : events[w] = <<>>
       /\ \/ \E n \in {"A", "B"} : onSubmitCategoryLocal(TheUser, n)
          \/ \E id \in 1..(MaxRecords + 1) : startEditingCategoryLocal(TheUser, id)
          \/ cancelEditingCategoryLocal(TheUser)
          \/ \E n \in {"A", "B"} : onSubmitVendorLocal(TheUser, n)
          \/ \E id \in 1..(MaxRecords + 1) : startEditingVendorLocal(TheUser, id)
          \/ cancelEditingVendorLocal(TheUser)
          \/ \E n \in {"A", "B"} : onSubmitCategoryLocal(OtherTab, n)
          \/ \E id \in 1..(MaxRecords + 1) : deleteCategoryLocal(OtherTab, id)
          \/ \E n \in {"A", "B"} : onSubmitVendorLocal(OtherTab, n)
          \/ \E id \in 1..(MaxRecords + 1) : deleteVendorLocal(OtherTab, id)
    \/ \E v \in Views : handleStorageChange(v)

SpecEditing == InitEditing /\ [][NextEditing]_vars

(* ----------- the local dashboard and writes of the expenses key -------- *)
TwoExpenses == OneExpense @@ (2 :> [date |-> Today, amount |-> 2, category |-> "A", vendor |-> "A"])

InitLocalDashboard ==
    /\ expensesDocs = EmptyDocs
    /\ nextExpenseId = 1
    /\ summaryDoc = NoSummary
    /\ incomeDoc = NoIncome
    /\ categoriesDocs = EmptyDocs
    /\ vendorsDocs = EmptyDocs
    /\ nextCategoryId = 1
    /\ nextVendorId = 1
    /\ backend = "local"
    /\ revision \in {"effectLoad", "lazyState"}
    /\ page = [v \in Views |-> "none"]
    /\ expenses = [v \in Views |-> EmptyDocs]
    /\ categories = [v \in Views |-> EmptyDocs]
    /\ vendors = [v \in Views |-> EmptyDocs]
    /\ localStorage = [k \in LocalKeys |-> NoItem]
    /\ savedExpenses \in {NoItem, stringify(OneExpense)}
    /\ events = [v \in Views |-> <<>>]
    /\ InitViews

NextLocalDashboard ==
    \/ \E v \in Views : openDashboardLocal(v)
    \/ \E value \in {NoItem, Garbage, stringify(EmptyDocs), stringify(OneExpense),
                     stringify(TwoExpenses)} : storageEventExpenses(value)
    \/ \E v \in Views : handleStorageChangeDashboard(v)

SpecLocalDashboard == InitLocalDashboard /\ [][NextLocalDashboard]_vars

(* --------------- two views of the same remote store -------------------- *)
InitShared ==
    /\ expensesDocs = EmptyDocs
    /\ nextExpenseId = 1
    /\ summaryDoc \in {NoSummary, [exists |-> TRUE, totalExpenses |-> 0, expenseCount |-> 0]}
    /\ incomeDoc = NoIncome
    /\ categoriesDocs = (1 :> "A")
    /\ vendorsDocs = EmptyDocs
    /\ nextCategoryId = 2
    /\ nextVendorId = 1
    /\ backend = "remote"
    /\ revision = "lazyCreate"
    /\ NoLocal
    /\ InitViews

(* two views add and delete expenses *)
NextLedger ==
    \E v \in Views :
        \/ onSubmitExpense(v, "1", "A", NO_VENDOR_VALUE)
        \/ \E id \in 1..(MaxExpenses + 1) : deleteExpense(v, id)
        \/ ensureSummaryDocExistsGet(v)
        \/ ensureSummaryDocExistsSet(v)
        \/ addExpenseCommit(v)
        \/ deleteExpenseCommit(v)
        \/ expenseMutationError(v)
        \/ fetchExpenses(v)

SpecLedger == InitShared /\ [][NextLedger]_vars

(* both views add vendors; one also adds expenses while the other deletes
   categories *)
NextShared ==
    \/ \E w \in {NO_VENDOR_VALUE, "A"} : onSubmitExpense(TheUser, "1", "A", w)
    \/ ensureSummaryDocExistsGet(TheUser)
    \/ ensureSummaryDocExistsSet(TheUser)
    \/ addExpenseCommit(TheUser)
    \/ expenseMutationError(TheUser)
    \/ fetchExpenses(TheUser)
    \/ \E v \in Views :
           \/ \E n \in {"A", "a"} : onSubmitVendor(v, n)
           \/ addVendorCommit(v)
           \/ vendorMutationError(v)
           \/ fetchVendors(v)
    \/ \E id \in 1..(MaxRecords + 1) : deleteCategory(OtherTab, id)
    \/ deleteCategoryCheck(OtherTab)
    \/ deleteCategoryCommit(OtherTab)
    \/ categoryMutationError(OtherTab)
    \/ \E v \in Views : fetchCategories(v)
    \/ refetchStale(TheUser, "categories")

SpecShared == InitShared /\ [][NextShared]_vars

(* ------ two views list the same stored expenses and delete them -------- *)
(* one expense is stored and counted, and both views have loaded the list *)
InitListed ==
    /\ expensesDocs = OneExpense
    /\ nextExpenseId = 2
    /\ summaryDoc = [exists |-> TRUE, totalExpenses |-> SumAmounts(OneExpense),
                     expenseCount |-> 1]
    /\ incomeDoc = NoIncome
    /\ categoriesDocs = (1 :> "A")
    /\ vendorsDocs = (1 :> "A")
    /\ nextCategoryId = 2
    /\ nextVendorId = 2
    /\ backend = "remote"
    /\ revision = "lazyCreate"
    /\ NoLocal
    /\ InitViews

(* the summary document exists throughout, so ensureSummaryDocExists never
   takes its setDoc branch *)
NextListed ==
    \E v \in Views :
        \/ onSubmitExpense(v, "1", "A", "A")
        \/ \E id \in 1..(MaxExpenses + 1) : deleteExpense(v, id)
        \/ ensureSummaryDocExistsGet(v)
        \/ addExpenseCommit(v)
        \/ deleteExpenseCommit(v)
        \/ expenseMutationError(v)
        \/ fetchExpenses(v)

SpecListed == InitListed /\ [][NextListed]_vars

(* ------------- the expense history: recent list and pages -------------- *)
EXPENSES_PER_PAGE == 15

(* pageParam null, and lastVisible of a page without documents *)
NullCursor == [id |-> 0, date |-> 0]

(* startAfter(pageParam) with a document snapshot: the documents that the
   order puts after the snapshot's date and name *)
startAfter_dateOnly(docs, list, cursor) ==
    SelectSeq(list, LAMBDA i : cursor.date > docs[i].date)

startAfter(docs, list, cursor) ==
    SelectSeq(list, LAMBDA i : \/ cursor.date > docs[i].date
                               \/ cursor.date = docs[i].date /\ cursor.id > i)

(* queryFn of the ["expenses"] infinite query *)
fetchPage(docs, pageParam) ==
    LET list == IF pageParam = NullCursor THEN orderBy(docs)
                ELSE startAfter(docs, orderBy(docs), pageParam)
        ids == limitTo(list, EXPENSES_PER_PAGE)
        last == Len(ids)
    IN [expenses |-> [k \in 1..last |-> [id |-> ids[k]] @@ docs[ids[k]]],
        lastVisible |-> IF last = 0 THEN NullCursor
                        ELSE [id |-> ids[last], date |-> docs[ids[last]].date]]

(* getNextPageParam: (lastPage) => lastPage.lastVisible; null means that
   there is no next page *)
hasNextPage(v) ==
    /\ expensesPages[v] # <<>>
    /\ expensesPages[v][Len(expensesPages[v])].lastVisible # NullCursor

(* the expenses memo: data.pages.flatMap(page => page.expenses) *)
RECURSIVE flatMap(_)
flatMap(pages) ==
    IF pages = <<>> THEN <<>> ELSE Head(pages).expenses \o flatMap(Tail(pages))

(* the listed expenses as id -> data *)
Listed(list) ==
    [i \in {list[k].id : k \in 1..Len(list)} |->
        LET e == list[CHOOSE k \in 1..Len(list) : list[k].id = i]
        IN [date |-> e.date, amount |-> e.amount, category |-> e.category,
            vendor |-> e.vendor]]

(* the expenses page mounts: the infinite query fetches its first page *)
fetchFirstPage(v) ==
    /\ backend = "remote"
    /\ expensesPages[v] = <<>>
    /\ expensesPages' = [expensesPages EXCEPT ![v] = <<fetchPage(expensesDocs, NullCursor)>>]
    /\ expensesCache' = [expensesCache EXCEPT ![v] = Listed(flatMap(expensesPages'[v]))]
    /\ UNCHANGED <<storeVars, categoriesCache, vendorsCache, summaryCache, incomeCache,
                   recentCache, refetch, viewVars>>

(* the effect on inView: if (inView && hasNextPage && !isFetchingNextPage)
   fetchNextPage(), with the last page's lastVisible as pageParam *)
fetchNextPage(v) ==
    /\ backend = "remote"
    /\ hasNextPage(v)
    /\ expensesPages' = [expensesPages EXCEPT ![v] =
           Append(@, fetchPage(expensesDocs, @[Len(@)].lastVisible))]
    /\ expensesCache' = [expensesCache EXCEPT ![v] = Listed(flatMap(expensesPages'[v]))]
    /\ UNCHANGED <<storeVars, categoriesCache, vendorsCache, summaryCache, incomeCache,
                   recentCache, refetch, viewVars>>

(* the recentExpenses memo of the local dashboard:
   [...expenses].sort((a, b) => b.date.getTime() - a.date.getTime()).slice(0, 5);
   the sort is stable, so equal dates keep the order of the array *)
recentExpenses(list) ==
    LET ids == DOMAIN list
        before(a, b) == \/ list[a].date > list[b].date
                        \/ list[a].date = list[b].date /\ a < b
        rank(i) == Cardinality({j \in ids : before(j, i)}) + 1
        sorted == [k \in 1..Cardinality(ids) |-> CHOOSE i \in ids : rank(i) = k]
        top == limitTo(sorted, 5)
    IN [k \in 1..Len(top) |-> [id |-> top[k]] @@ list[top[k]]]

(* a stored history of n expenses with the given dates *)
History(n, date) ==
    [i \in 1..n |-> [date |-> date[i], amount |-> 1, category |-> "A", vendor |-> "A"]]

(* every history of up to drawn expenses, and the histories of up to longest
   expenses whose dates are all equal or repeat in a cycle *)
Histories(drawn, longest) ==
    UNION {{History(n, d) : d \in [1..n -> Dates]} : n \in 0..drawn}
    \cup {History(n, [i \in 1..n |-> ((i * k) % MaxDate) + 1]) :
              n \in 0..longest, k \in 0..(MaxDate - 1)}

(* a stored history, read by one view: the remote dashboard and expenses page
   are about to fetch, the local dashboard is about to mount *)
InitHistory ==
    /\ \E h \in Histories(MaxDrawn, MaxHistory) :
          \/ /\ backend = "remote"
             /\ revision = "lazyCreate"
             /\ expensesDocs = h
             /\ savedExpenses = NoItem
          \/ /\ backend = "local"
             /\ revision \in {"effectLoad", "lazyState"}
             /\ expensesDocs = EmptyDocs
             /\ savedExpenses = stringify(h)
    /\ nextExpenseId = Cardinality(DOMAIN expensesDocs) + 1
    /\ summaryDoc = [exists |-> TRUE, totalExpenses |-> SumAmounts(expensesDocs),
                     expenseCount |-> Cardinality(DOMAIN expensesDocs)]
    /\ incomeDoc = NoIncome
    /\ categoriesDocs = (1 :> "A")
    /\ vendorsDocs = (1 :> "A")
    /\ nextCategoryId = 2
    /\ nextVendorId = 2
    /\ page = [v \in Views |-> "none"]
    /\ expenses = [v \in Views |-> EmptyDocs]
    /\ categories = [v \in Views |-> EmptyDocs]
    /\ vendors = [v \in Views |-> EmptyDocs]
    /\ localStorage = [k \in LocalKeys |-> NoItem]
    /\ events = [v \in Views |-> <<>>]
    /\ expensesCache = [v \in Views |-> EmptyDocs]
    /\ expensesPages = [v \in Views |-> <<>>]
    /\ categoriesCache = [v \in Views |-> categoriesDocs]
    /\ vendorsCache = [v \in Views |-> vendorsDocs]
    /\ summaryCache = [v \in Views |->
           [loaded |-> TRUE, exists |-> TRUE, totalExpenses |-> summaryDoc.totalExpenses,
            expenseCount |-> summaryDoc.expenseCount]]
    /\ incomeCache = [v \in Views |-> IncomeNotLoaded]
    /\ recentCache = [v \in Views |-> <<>>]
    /\ refetch = [v \in Views |-> IF v = TheUser /\ backend = "remote" THEN {"recent"} ELSE {}]
    /\ mut = [v \in Views |-> Idle]
    /\ notice = [v \in Views |-> ""]
    /\ editingVendorId = [v \in Views |-> 0]
    /\ editingCategoryId = [v \in Views |-> 0]
    /\ amountField = [v \in Views |-> "undefined"]
    /\ dashboard = [v \in Views |-> Render(incomeCache[v], summaryCache[v])]

NextHistory ==
    \/ fetchRecentExpenses(TheUser)
    \/ fetchFirstPage(TheUser)
    \/ fetchNextPage(TheUser)
    \/ openDashboardLocal(TheUser)

SpecHistory == InitHistory /\ [][NextHistory]_vars

(* ------------------------------ claims --------------------------------- *)
SummaryMatches ==
    /\ summaryDoc.totalExpenses = SumAmounts(expensesDocs)
    /\ summaryDoc.expenseCount = Cardinality(DOMAIN expensesDocs)

(* C1: with one client issuing expense creates and deletes one at a time,
   whenever no mutation is in flight totalExpenses is the sum of the amounts
   of the stored expenses and expenseCount is their number. *)
C1_RunningCounters ==
    (\A v \in Views : ~Pending(v)) => SummaryMatches

(* an expense has been deleted while another one is still stored *)
C1_Witness ==
    /\ notice[TheUser] = "Expense Deleted"
    /\ ~Pending(TheUser)
    /\ Cardinality(DOMAIN expensesDocs) = 1
    /\ summaryDoc.totalExpenses > 0

(* C3: the balance card is the income card minus the total-expenses card,
   a missing income setting or summary counting as 0; once nothing is in
   flight the cards show the stored income and the stored total. *)
C3_Balance ==
    /\ \A v \in Views :
          /\ dashboard[v].income = (IF incomeCache[v].loaded THEN incomeCache[v].amount ELSE 0)
          /\ dashboard[v].expenses =
                 (IF summaryCache[v].loaded /\ summaryCache[v].exists
                  THEN summaryCache[v].totalExpenses ELSE 0)
          /\ dashboard[v].balance = dashboard[v].income - dashboard[v].expenses
    /\ Quiet => dashboard[TheUser].balance = incomeDoc.amount - summaryDoc.totalExpenses
    /\ balance([loaded |-> TRUE, amount |-> 500000],
               [loaded |-> TRUE, exists |-> TRUE, totalExpenses |-> 235075,
                expenseCount |-> 1]) = 264925
    /\ balance(IncomeNotLoaded,
               [loaded |-> TRUE, exists |-> TRUE, totalExpenses |-> 7550,
                expenseCount |-> 1]) = 0 - 7550
    /\ balance([loaded |-> TRUE, amount |-> 3], NotLoaded) = 3

(* the dashboard shows a negative balance: some expenses and no income *)
C3_Witness ==
    /\ Quiet
    /\ ~incomeDoc.exists
    /\ dashboard[TheUser].expenses > 0
    /\ dashboard[TheUser].balance < 0

InvalidAmount(a) == CoerceNumber(a).nan \/ CoerceNumber(a).n <= 0

ValidationMessages ==
    {"Expected number, received nan", "Amount must be positive.", "Category is required."}

(* C9: a submit of the expense form whose amount is <= 0, empty or not a
   number starts no mutation, reports a validation message and leaves the
   expense collection and the summary document as they were. *)
C9_RejectedBeforePersistence ==
    [][\A v \in Views :
          (~Pending(v) /\ amountField'[v] # amountField[v] /\ InvalidAmount(amountField'[v]))
          => /\ ~Pending(v)'
             /\ notice'[v] \in ValidationMessages
             /\ UNCHANGED <<expensesDocs, summaryDoc>>]_vars

(* an amount of 0 has been submitted and rejected *)
C9_Witness ==
    /\ amountField[TheUser] = "0"
    /\ notice[TheUser] = "Amount must be positive."
    /\ ~Pending(TheUser)

UsedVendor(name) == \E e \in DOMAIN expensesDocs : expensesDocs[e].vendor = name

UsedCategory(name) == \E e \in DOMAIN expensesDocs : expensesDocs[e].category = name

UsedVendorLocal(name) ==
    \E e \in DOMAIN savedExpenses.list : savedExpenses.list[e].vendor = name

UsedCategoryLocal(name) ==
    \E e \in DOMAIN savedExpenses.list : savedExpenses.list[e].category = name

(* the steps of a remote delete of a vendor: rejected at the usage query when
   an expense has the vendor's name, otherwise never rejected there and
   removed by the write unless the write itself is rejected *)
C4_RemoteVendor(v) ==
    (mut[v].op = "deleteVendor" /\ mut[v].id \in DOMAIN vendorsDocs /\ mut'[v] # mut[v])
    => IF UsedVendor(vendorsDocs[mut[v].id])
       THEN /\ ~Pending(v)'
            /\ notice'[v] = "Cannot Delete Vendor"
            /\ UNCHANGED <<vendorsDocs, expensesDocs>>
       ELSE IF mut[v].pc = "check"
       THEN mut'[v].pc = "commit" /\ UNCHANGED <<vendorsDocs, expensesDocs>>
       ELSE \/ /\ vendorsDocs' = Remove(vendorsDocs, mut[v].id)
               /\ notice'[v] = "Vendor Deleted"
               /\ UNCHANGED expensesDocs
            \/ /\ notice'[v] = "Cannot Delete Vendor"
               /\ UNCHANGED <<vendorsDocs, expensesDocs>>

C4_RemoteCategory(v) ==
    (mut[v].op = "deleteCategory" /\ mut[v].id \in DOMAIN categoriesDocs
        /\ mut'[v] # mut[v])
    => IF UsedCategory(categoriesDocs[mut[v].id])
       THEN /\ ~Pending(v)'
            /\ notice'[v] = "Cannot Delete Category"
            /\ UNCHANGED <<categoriesDocs, expensesDocs>>
       ELSE IF mut[v].pc = "check"
       THEN mut'[v].pc = "commit" /\ UNCHANGED <<categoriesDocs, expensesDocs>>
       ELSE \/ /\ categoriesDocs' = Remove(categoriesDocs, mut[v].id)
               /\ notice'[v] = "Category Deleted"
               /\ UNCHANGED expensesDocs
            \/ /\ notice'[v] = "Cannot Delete Category"
               /\ UNCHANGED <<categoriesDocs, expensesDocs>>

(* a local delete, on the stored list and the stored expenses when the
   latter can be read *)
C4_Local(v, id) ==
    /\ (deleteCategoryLocal(v, id) /\ savedExpenses.kind # "garbage")
       => IF UsedCategoryLocal(parse(localStorage[LOCAL_STORAGE_KEY_CATEGORIES])[id])
          THEN /\ notice'[v] = "Cannot Delete Category"
               /\ UNCHANGED <<localStorage, savedExpenses, categories>>
          ELSE /\ localStorage'[LOCAL_STORAGE_KEY_CATEGORIES] =
                      stringify(Remove(parse(localStorage[LOCAL_STORAGE_KEY_CATEGORIES]), id))
               /\ categories'[v] = Remove(categories[v], id)
               /\ UNCHANGED savedExpenses
    /\ (deleteVendorLocal(v, id) /\ savedExpenses.kind # "garbage")
       => IF UsedVendorLocal(parse(localStorage[LOCAL_STORAGE_KEY_VENDORS])[id])
          THEN /\ notice'[v] = "Cannot Delete Vendor"
               /\ UNCHANGED <<localStorage, savedExpenses, vendors>>
          ELSE /\ localStorage'[LOCAL_STORAGE_KEY_VENDORS] =
                      stringify(Remove(parse(localStorage[LOCAL_STORAGE_KEY_VENDORS]), id))
               /\ vendors'[v] = Remove(vendors[v], id)
               /\ UNCHANGED savedExpenses

(* C4: with one client working one operation at a time, deleting a vendor or
   category whose name is the vendor/category of a stored expense fails with
   an error notice and changes neither the vendor/category collection nor the
   expenses; deleting one that no stored expense names removes it (unless the
   backend rejects the write). *)
C4_DeleteInUse ==
    [][\A v \in Views :
          /\ C4_RemoteVendor(v)
          /\ C4_RemoteCategory(v)
          /\ \A id \in 1..(MaxRecords + 1) : C4_Local(v, id)]_vars

(* the delete of vendor "A", which the stored expense names, was refused and
   the delete of another vendor went through *)
C4_Witness ==
    /\ backend = "remote"
    /\ ~Pending(TheUser)
    /\ notice[TheUser] = "Cannot Delete Vendor"
    /\ vendorsDocs = (1 :> "A")
    /\ UsedVendor("A")
    /\ nextVendorId = 3

(* some other record of the list has the name, ignoring letter case *)
TakenByOther(list, id, name) ==
    \E i \in DOMAIN list : i # id /\ toLowerCase(list[i]) = toLowerCase(name)

(* the name is the record's own, ignoring letter case *)
OwnName(list, id, name) ==
    id \in DOMAIN list /\ toLowerCase(list[id]) = toLowerCase(name)

C7_RemoteVendor(v, name) ==
    /\ (onSubmitVendor(v, name) /\ editingVendorId[v] # 0 /\ name # "")
       => /\ TakenByOther(vendorsDocs, editingVendorId[v], name)
             => /\ ~Pending(v)'
                /\ notice'[v] = "Vendor name already exists."
          /\ (OwnName(vendorsDocs, editingVendorId[v], name)
                /\ ~TakenByOther(vendorsDocs, editingVendorId[v], name))
             => mut'[v].op = "updateVendor" /\ mut'[v].name = name
          /\ UNCHANGED vendorsDocs
    /\ (mut[v].op = "updateVendor" /\ mut'[v] # mut[v])
       => \/ /\ vendorsDocs' = [vendorsDocs EXCEPT ![mut[v].id] = mut[v].name]
             /\ notice'[v] = "Vendor Updated"
          \/ /\ notice'[v] = "Error Updating Vendor"
             /\ UNCHANGED vendorsDocs

C7_RemoteCategory(v, name) ==
    /\ (onSubmitCategory(v, name) /\ editingCategoryId[v] # 0 /\ name # "")
       => /\ TakenByOther(categoriesDocs, editingCategoryId[v], name)
             => /\ ~Pending(v)'
                /\ notice'[v] = "Category name already exists."
          /\ (OwnName(categoriesDocs, editingCategoryId[v], name)
                /\ ~TakenByOther(categoriesDocs, editingCategoryId[v], name))
             => mut'[v].op = "updateCategory" /\ mut'[v].name = name
          /\ UNCHANGED categoriesDocs
    /\ (mut[v].op = "updateCategory" /\ mut'[v] # mut[v])
       => \/ /\ categoriesDocs' = [categoriesDocs EXCEPT ![mut[v].id] = mut[v].name]
             /\ notice'[v] = "Category Updated"
          \/ /\ notice'[v] = "Error Updating Category"
             /\ UNCHANGED categoriesDocs

C7_Local(v, name) ==
    /\ (onSubmitVendorLocal(v, name) /\ editingVendorId[v] # 0 /\ name # "")
       => LET stored == parse(localStorage[LOCAL_STORAGE_KEY_VENDORS])
          IN /\ TakenByOther(stored, editingVendorId[v], name)
                => /\ notice'[v] = "Vendor name already exists."
                   /\ UNCHANGED <<localStorage, vendors>>
             /\ (OwnName(stored, editingVendorId[v], name)
                   /\ ~TakenByOther(stored, editingVendorId[v], name))
                => /\ localStorage'[LOCAL_STORAGE_KEY_VENDORS] =
                          stringify([stored EXCEPT ![editingVendorId[v]] = name])
                   /\ notice'[v] = "Vendor Updated"
    /\ (onSubmitCategoryLocal(v, name) /\ editingCategoryId[v] # 0 /\ name # "")
       => LET stored == parse(localStorage[LOCAL_STORAGE_KEY_CATEGORIES])
          IN /\ TakenByOther(stored, editingCategoryId[v], name)
                => /\ notice'[v] = "Category name already exists."
                   /\ UNCHANGED <<localStorage, categories>>
             /\ (OwnName(stored, editingCategoryId[v], name)
                   /\ ~TakenByOther(stored, editingCategoryId[v], name))
                => /\ localStorage'[LOCAL_STORAGE_KEY_CATEGORIES] =
                          stringify([stored EXCEPT ![editingCategoryId[v]] = name])
                   /\ notice'[v] = "Category Updated"

(* C7: with one client working one operation at a time, an update of a vendor
   or category to a name that another record of the collection has, ignoring
   letter case, is refused with the duplicate-name error and the collection
   is unchanged; an update to the record's own name, also in another letter
   case, is not refused and is written (unless the backend rejects the
   write). *)
C7_UpdateDuplicate ==
    [][\A v \in Views : \A name \in InputNames :
          /\ C7_RemoteVendor(v, name)
          /\ C7_RemoteCategory(v, name)
          /\ C7_Local(v, name)]_vars

(* category 1 was renamed from "A" to "a" while a second category exists *)
C7_Witness ==
    /\ backend = "remote"
    /\ ~Pending(TheUser)
    /\ notice[TheUser] = "Category Updated"
    /\ 2 \in DOMAIN categoriesDocs
    /\ categoriesDocs[1] = "a"
    /\ categoriesDocs[2] = "B"

ExpenseOps == {"addExpense", "deleteExpense"}

(* C2: under any interleaving of two views, a step that stores an expense is
   the step that adds its amount to totalExpenses and 1 to expenseCount, a
   step that removes a stored expense is the step that subtracts them, and a
   step in which an expense mutation ends with an error changes neither the
   expenses nor the counters. *)
C2_AtomicBatch ==
    [][/\ \A id \in 1..(MaxExpenses + 1) :
            /\ (id \notin DOMAIN expensesDocs /\ id \in DOMAIN expensesDocs')
               => summaryDoc' = SummaryIncrement(summaryDoc, expensesDocs'[id].amount, 1)
            /\ (id \in DOMAIN expensesDocs /\ id \notin DOMAIN expensesDocs')
               => summaryDoc' =
                      SummaryIncrement(summaryDoc, 0 - expensesDocs[id].amount, 0 - 1)
       /\ \A v \in Views :
            (mut[v].op \in ExpenseOps /\ mut[v].pc = "commit" /\ ~Pending(v)'
                /\ notice'[v] \in {"Error Adding Expense", "Error Deleting Expense"})
            => UNCHANGED <<expensesDocs, summaryDoc>>]_vars

(* one view has stored an expense and the commit of the other view failed *)
C2_Witness ==
    /\ notice[TheUser] = "Expense Added"
    /\ notice[OtherTab] = "Error Adding Expense"
    /\ Cardinality(DOMAIN expensesDocs) = 1
    /\ summaryDoc.expenseCount = 1
    /\ summaryDoc.totalExpenses = 1

(* C5: creating a category whose name equals, ignoring letter case, the name
   of a stored category is refused with 'Category name already exists.' and
   the collection is unchanged, in the local and in the remote variant. *)
C5_DuplicateCategory ==
    [][\A v \in Views :
          /\ (mut[v].op = "addCategory" /\ mut'[v] # mut[v]
                /\ TakenByOther(categoriesDocs, 0, mut[v].name))
             => /\ ~Pending(v)'
                /\ notice'[v] = "Category name already exists."
                /\ UNCHANGED categoriesDocs
          /\ \A name \in Names :
                (onSubmitCategoryLocal(v, name) /\ editingCategoryId[v] = 0
                    /\ TakenByOther(parse(localStorage[LOCAL_STORAGE_KEY_CATEGORIES]),
                                    0, name))
                => /\ notice'[v] = "Category name already exists."
                   /\ UNCHANGED <<localStorage, categories>>]_vars

(* C6: creating a vendor whose name equals, ignoring letter case, the name of
   a stored vendor is refused with 'Vendor name already exists.' and the
   collection is unchanged, also right after a creation has succeeded. *)
C6_DuplicateVendor ==
    [][\A v \in Views :
          /\ \A name \in Names :
                (onSubmitVendor(v, name) /\ editingVendorId[v] = 0
                    /\ TakenByOther(vendorsDocs, 0, name))
                => /\ ~Pending(v)'
                   /\ notice'[v] = "Vendor name already exists."
          /\ (mut[v].op = "addVendor" /\ mut'[v] # mut[v]
                /\ TakenByOther(vendorsDocs, 0, mut[v].name))
             => UNCHANGED vendorsDocs]_vars

Unique(list) ==
    \A i, j \in DOMAIN list :
        i # j => toLowerCase(list[i]) # toLowerCase(list[j])

(* C8: in every reachable state no two vendors and no two categories have
   names that are equal ignoring letter case. *)
C8_NamesUnique ==
    /\ Unique(vendorsDocs)
    /\ Unique(categoriesDocs)
    /\ \A k \in LocalKeys : Unique(parse(localStorage[k]))

(* C10: an expense is stored with a category that is the name of a stored
   category and with no vendor or the name of a stored vendor. *)
C10_ReferencesExist ==
    [][\A id \in 1..(MaxExpenses + 1) :
          (id \notin DOMAIN expensesDocs /\ id \in DOMAIN expensesDocs')
          => /\ expensesDocs'[id].category \in Range(categoriesDocs')
             /\ expensesDocs'[id].vendor \in
                    {NullVendor, ""} \cup Range(vendorsDocs')]_vars

(* C11: an income submission whose text parses to v >= 0 starts the update
   of the stored income to v, and when the update succeeds the income
   document exists with amount v and the income card shows v, also after the
   refetches that follow; a text that is not a number or is negative starts
   nothing, raises "Invalid Income Amount" and leaves the store as it was;
   no step of the submission changes the expenses or the summary document *)
C11_IncomeSubmit ==
    [][/\ \A i \in IncomeInputs :
              (Quiet /\ handleIncomeUpdate(TheUser, i)) =>
                  /\ UNCHANGED storeVars
                  /\ IF i \in {"0", "3"}
                     THEN /\ mut'[TheUser].op = "updateIncome"
                          /\ mut'[TheUser].amount = (IF i = "0" THEN 0 ELSE 3)
                     ELSE /\ ~Pending(TheUser)'
                          /\ notice'[TheUser] = "Invalid Income Amount"
       /\ mut[TheUser].op = "updateIncome" =>
              /\ UNCHANGED <<expensesDocs, summaryDoc>>
              /\ \/ /\ notice'[TheUser] = "Income Updated"
                    /\ incomeDoc' = [exists |-> TRUE, amount |-> mut[TheUser].amount]
                    /\ dashboard'[TheUser].income = mut[TheUser].amount
                    /\ ~Pending(TheUser)'
                 \/ /\ notice'[TheUser] = "Error Updating Income"
                    /\ UNCHANGED incomeDoc
                    /\ ~Pending(TheUser)'
       /\ notice'[TheUser] = "Income Updated" =>
              /\ incomeDoc'.exists
              /\ dashboard'[TheUser].income = incomeDoc'.amount
      ]_vars

(* a submission of "3" to the dashboard with the reset has succeeded and the
   refetches it started have completed *)
C11_Witness ==
    /\ notice[TheUser] = "Income Updated"
    /\ incomeDoc = [exists |-> TRUE, amount |-> 3]
    /\ dashboard[TheUser].income = 3
    /\ revision = "reset"
    /\ Quiet

(* C12: with one client and no other operation in flight, the step that
   completes a data reset leaves no expense, the income document with amount 0
   and the summary document with both counters 0, whatever was stored before;
   no step of the reset changes the vendors or the categories *)
C12_ResetData ==
    [][mut[TheUser].op = "resetData" =>
           /\ UNCHANGED <<vendorsDocs, categoriesDocs>>
           /\ ~Pending(TheUser)' =>
                  \/ /\ notice'[TheUser] = "Application Data Reset"
                     /\ expensesDocs' = EmptyDocs
                     /\ incomeDoc' = [exists |-> TRUE, amount |-> 0]
                     /\ summaryDoc' = [exists |-> TRUE, totalExpenses |-> 0,
                                       expenseCount |-> 0]
                  \/ notice'[TheUser] = "Error Resetting Data"
      ]_vars

(* a reset of a store that held expenses and a non-zero income has completed
   and the dashboard has refetched *)
C12_Witness ==
    /\ notice[TheUser] = "Application Data Reset"
    /\ nextExpenseId > 1
    /\ expensesDocs = EmptyDocs
    /\ incomeDoc.exists /\ incomeDoc.amount = 0
    /\ vendorsDocs = (1 :> "A") /\ categoriesDocs = (1 :> "A")
    /\ dashboard[TheUser] = [income |-> 0, expenses |-> 0, balance |-> 0]
    /\ Quiet

(* C13: in the remote variant, with one client and one mutation at a time,
   whenever no mutation and no fetch is in flight the expense list, the
   recent expenses, the total and the income on the cards, the vendor list
   and the category list that the client shows equal what is stored *)
C13_CachesFollowStore ==
    Quiet =>
        /\ expensesCache[TheUser] = expensesDocs
        /\ recentCache[TheUser] = Recent(expensesDocs)
        /\ dashboard[TheUser].expenses =
               (IF summaryDoc.exists THEN summaryDoc.totalExpenses ELSE 0)
        /\ dashboard[TheUser].income = (IF incomeDoc.exists THEN incomeDoc.amount ELSE 0)
        /\ vendorsCache[TheUser] = vendorsDocs
        /\ categoriesCache[TheUser] = categoriesDocs

(* an expense was added and the income was set to 0 with success, and every
   query has been refetched *)
C13_Witness ==
    /\ Quiet
    /\ Cardinality(DOMAIN expensesDocs) = 2
    /\ notice[TheUser] = "Income Updated"
    /\ incomeDoc = [exists |-> TRUE, amount |-> 0]
    /\ expensesCache[TheUser] = expensesDocs
    /\ dashboard[TheUser].expenses = 3

(* C14: in the local variant, with one tab writing at a time, a tab that
   handles the storage event of a write to the key of its mounted page
   (categories or vendors) replaces its list with the list that is stored,
   and a tab that handles an event for any other key keeps its list *)
C14_StorageNotification ==
    [][\A v \in Views :
           handleStorageChange(v) =>
               LET event == Head(events[v])
               IN /\ (page[v] = "categories" /\ event.key = LOCAL_STORAGE_KEY_CATEGORIES) =>
                         categories'[v] = parse(localStorage[LOCAL_STORAGE_KEY_CATEGORIES])
                  /\ (page[v] = "vendors" /\ event.key = LOCAL_STORAGE_KEY_VENDORS) =>
                         vendors'[v] = parse(localStorage[LOCAL_STORAGE_KEY_VENDORS])
                  /\ event.key # KeyOf(page[v]) =>
                         /\ categories'[v] = categories[v]
                         /\ vendors'[v] = vendors[v]
      ]_vars

(* both tabs have the categories page open, the listening tab has handled the
   events of the other tab's writes and shows the two stored categories *)
C14_Witness ==
    /\ backend = "local"
    /\ page = [v \in Views |-> "categories"]
    /\ events = [v \in Views |-> <<>>]
    /\ Cardinality(DOMAIN categories[OtherTab]) = 2
    /\ categories[OtherTab] = parse(localStorage[LOCAL_STORAGE_KEY_CATEGORIES])
    /\ categories[TheUser] = categories[OtherTab]

(* what C15 and C16 call the persisted collections and the summary value; a
   missing summary document reads as 0 and 0 *)
Persisted ==
    <<expensesDocs, vendorsDocs, categoriesDocs,
      summaryDoc.totalExpenses, summaryDoc.expenseCount>>

SuccessNotices ==
    {"Expense Added", "Expense Deleted", "Vendor Added", "Vendor Updated", "Vendor Deleted",
     "Category Added", "Category Updated", "Category Deleted"}

FailureNotices ==
    ValidationMessages \cup
    {"Vendor name cannot be empty.", "Vendor name already exists.", "Cannot Delete Vendor",
     "Category name cannot be empty.", "Category name already exists.",
     "Cannot Delete Category", "Error Adding Expense", "Error Deleting Expense",
     "Error Adding Vendor", "Error Updating Vendor", "Error Adding Category",
     "Error Updating Category"}

(* C15: with one client, an expense, vendor or category mutation changes the
   persisted collections and the summary counters only in the step that
   completes it with its success notice; a submission refused by validation
   or as a duplicate, a delete refused as in use and a write rejected by the
   backend change none of them, raise an error notice and leave no mutation
   pending, so that the form can be submitted again *)
C15_FailureChangesNothing ==
    [][/\ mut[TheUser].op \in ExpenseOps \cup VendorOps \cup CategoryOps =>
              /\ \/ UNCHANGED Persisted
                 \/ ~Pending(TheUser)' /\ notice'[TheUser] \in SuccessNotices
              /\ notice'[TheUser] # notice[TheUser] => ~Pending(TheUser)'
              /\ ~Pending(TheUser)' =>
                     notice'[TheUser] \in SuccessNotices \cup FailureNotices
       /\ (~Pending(TheUser)' /\ notice'[TheUser] \in FailureNotices) =>
              UNCHANGED Persisted
      ]_vars

(* the write of an expense whose summary document had to be created first was
   rejected: the form is idle again and nothing is recorded *)
C15_Witness ==
    /\ notice[TheUser] = "Error Adding Expense"
    /\ ~Pending(TheUser)
    /\ amountField[TheUser] = "2"
    /\ expensesDocs = EmptyDocs
    /\ summaryDoc = [exists |-> TRUE, totalExpenses |-> 0, expenseCount |-> 0]
    /\ summaryCache[TheUser] = NotLoaded

(* C16: with one client, a stored expense keeps its fields in every step
   unless the step is the delete of that expense or a step of a data reset,
   which remove it; no step of a vendor or category create, update or delete
   or of an income update changes a stored expense or a summary counter *)
C16_ExpenseImmutable ==
    [][/\ \A id \in DOMAIN expensesDocs :
              \/ id \in DOMAIN expensesDocs' /\ expensesDocs'[id] = expensesDocs[id]
              \/ /\ id \notin DOMAIN expensesDocs'
                 /\ \/ mut[TheUser].op = "deleteExpense" /\ mut[TheUser].id = id
                    \/ mut[TheUser].op = "resetData"
       /\ mut[TheUser].op \in VendorOps \cup CategoryOps \cup {"updateIncome"} =>
              UNCHANGED <<expensesDocs, summaryDoc.totalExpenses, summaryDoc.expenseCount>>
      ]_vars

(* the vendor that the stored expense names was renamed to "B"; the expense
   and the counters are as before *)
C16_Witness ==
    /\ notice[TheUser] = "Vendor Updated"
    /\ vendorsDocs = (1 :> "B")
    /\ expensesDocs = OneExpense
    /\ summaryDoc = [exists |-> TRUE, totalExpenses |-> 1, expenseCount |-> 1]

(* C17: in every interleaving of a vendor or category delete with the expense
   creations of another view, the step that removes the record leaves no
   stored expense that names it *)
C17_DeleteAtomic ==
    [][\A w \in Views :
           /\ (mut[w].op = "deleteCategory" /\ mut[w].id \in DOMAIN categoriesDocs
                   /\ mut[w].id \notin DOMAIN categoriesDocs') =>
                  \A e \in DOMAIN expensesDocs' :
                      expensesDocs'[e].category # categoriesDocs[mut[w].id]
           /\ (mut[w].op = "deleteVendor" /\ mut[w].id \in DOMAIN vendorsDocs
                   /\ mut[w].id \notin DOMAIN vendorsDocs') =>
                  \A e \in DOMAIN expensesDocs' :
                      expensesDocs'[e].vendor # vendorsDocs[mut[w].id]
      ]_vars

(* C18: when one view creates expenses while another view resets the data,
   once the reset has completed and no mutation is in flight totalExpenses is
   the sum of the stored amounts and expenseCount is their number *)
C18_ResetRace ==
    (notice[OtherTab] = "Application Data Reset" /\ \A v \in Views : ~Pending(v)) =>
        SummaryMatches

(* both tabs show the stored list and no storage event is waiting *)
Settled ==
    /\ events = [v \in Views |-> <<>>]
    /\ \A v \in Views :
           /\ page[v] = "categories" =>
                  localStorage[LOCAL_STORAGE_KEY_CATEGORIES] = stringify(categories[v])
           /\ page[v] = "vendors" =>
                  localStorage[LOCAL_STORAGE_KEY_VENDORS] = stringify(vendors[v])

(* C19: two tabs of the local variant on the same collection, each adding at
   most one record and then only handling storage events, reach a state from
   which both lists equal the stored list and no event is waiting, and stay
   there: the handlers and persist effects stop rewriting the key *)
C19_TabsSettle == <>[]Settled

(* C20: when the local dashboard has handled the storage event of a write of
   the expenses key, its expense list is the list that was written, the empty
   list when "[]" was written or the key was removed, and its cards show the
   total of that list and the income less that total *)
C20_DashboardFollowsStorage ==
    [][\A v \in Views :
           (/\ handleStorageChangeDashboard(v)
            /\ Head(events[v]).key = LOCAL_STORAGE_KEY_EXPENSES
            /\ Head(events[v]).newValue.kind \in {"json", "absent"}) =>
               /\ expenses'[v] = Head(events[v]).newValue.list
               /\ dashboard'[v] = summaryDataLocal(Head(events[v]).newValue.list)
      ]_vars

(* C21: the Recent Expenses list of the dashboard holds at most 5 expenses in
   descending order of date, every stored expense that is not listed is dated
   no later than every listed one, and with fewer than 5 stored expenses all
   of them are listed *)
RecentList(list, stored) ==
    LET listed == {list[k].id : k \in 1..Len(list)}
    IN /\ Len(list) <= 5
       /\ \A k \in 1..(Len(list) - 1) : list[k].date >= list[k + 1].date
       /\ \A i \in DOMAIN stored \ listed :
             \A k \in 1..Len(list) : stored[i].date <= list[k].date
       /\ Cardinality(DOMAIN stored) < 5 => DOMAIN stored \subseteq listed

C21_RecentExpenses ==
    /\ (backend = "remote" /\ "recent" \notin refetch[TheUser])
           => RecentList(recentCache[TheUser], expensesDocs)
    /\ (backend = "local" /\ page[TheUser] = "dashboard")
           => RecentList(recentExpenses(expenses[TheUser]), parse(savedExpenses))

(* the recent query has answered on a store of more than 5 expenses with
   different dates, of which one of the oldest is not listed *)
C21_Witness ==
    /\ backend = "remote"
    /\ "recent" \notin refetch[TheUser]
    /\ Cardinality(DOMAIN expensesDocs) > 5
    /\ Len(recentCache[TheUser]) = 5
    /\ recentCache[TheUser][1].date > recentCache[TheUser][5].date
    /\ \E i \in DOMAIN expensesDocs :
          /\ \A k \in 1..5 : recentCache[TheUser][k].id # i
          /\ expensesDocs[i].date < recentCache[TheUser][5].date

(* C22: without concurrent mutation, paging through the expense history ends:
   the number of pages fetched is bounded by the number of stored expenses,
   no page holds more than 15 expenses, and once hasNextPage is false the
   flattened list holds every stored expense exactly once in descending order
   of date, also for 0 expenses and for an exact multiple of 15 *)
C22_PagingTerminates ==
    LET pages == expensesPages[TheUser]
        flat == flatMap(pages)
    IN /\ Len(pages) <= (Cardinality(DOMAIN expensesDocs) \div EXPENSES_PER_PAGE) + 2
       /\ \A p \in 1..Len(pages) : Len(pages[p].expenses) <= EXPENSES_PER_PAGE
       /\ (pages # <<>> /\ ~hasNextPage(TheUser)) =>
             /\ Len(flat) = Cardinality(DOMAIN expensesDocs)
             /\ \A i \in DOMAIN expensesDocs :
                   Cardinality({k \in 1..Len(flat) : flat[k].id = i}) = 1
             /\ \A k \in 1..Len(flat) : Listed(flat)[flat[k].id] = expensesDocs[flat[k].id]
             /\ \A k \in 1..(Len(flat) - 1) : flat[k].date >= flat[k + 1].date

(* a history of exactly two full pages with equal dates across the page
   boundaries has been paged to its end *)
C22_Witness ==
    LET pages == expensesPages[TheUser]
    IN /\ Cardinality(DOMAIN expensesDocs) = 2 * EXPENSES_PER_PAGE
       /\ Len(pages) = 3
       /\ ~hasNextPage(TheUser)
       /\ pages[1].lastVisible.date = pages[2].expenses[1].date

(* C23: the lazy creation of the summary document writes its zero counters
   only when no summary document exists: in no interleaving with another
   view's expense create does it overwrite an existing summary document, so
   accumulated counters are never set back to 0 by it *)
C23_LazyCreate ==
    [][\A v \in Views :
          (ensureSummaryDocExistsSet(v) \/ createSummaryData(v)) =>
              /\ ~summaryDoc.exists
              /\ summaryDoc'.totalExpenses >= summaryDoc.totalExpenses
              /\ summaryDoc'.expenseCount >= summaryDoc.expenseCount]_vars

(* C24: the delete of an expense that is no longer stored (another view has
   deleted it while this view still lists it) leaves totalExpenses and
   expenseCount unchanged, and both counters are at least 0 in every
   reachable state *)
C24_DeleteMissing ==
    [][/\ \A v \in Views :
            (deleteExpenseCommit(v) /\ mut[v].id \notin DOMAIN expensesDocs)
                => UNCHANGED summaryDoc
       /\ summaryDoc'.totalExpenses >= 0
       /\ summaryDoc'.expenseCount >= 0]_vars

(* C25: after the update of the name of a category or vendor, every stored
   expense that referenced the old name references a category (vendor) that
   exists in its collection, in the remote and in the local variant *)
C25_RenameKeepsReferences ==
    [][\A v \in Views :
          /\ updateCategoryCommit(v) =>
                \A e \in DOMAIN expensesDocs :
                    expensesDocs[e].category = categoriesDocs[mut[v].id]
                        => expensesDocs'[e].category \in Range(categoriesDocs')
          /\ updateVendorCommit(v) =>
                \A e \in DOMAIN expensesDocs :
                    expensesDocs[e].vendor = vendorsDocs[mut[v].id]
                        => expensesDocs'[e].vendor \in Range(vendorsDocs')
          /\ (backend = "local" /\ editingCategoryId[v] \in DOMAIN categories[v]
                /\ notice'[v] = "Category Updated" /\ editingCategoryId'[v] = 0) =>
                \A e \in DOMAIN parse(savedExpenses) :
                    parse(savedExpenses)[e].category = categories[v][editingCategoryId[v]]
                        => parse(savedExpenses')[e].category \in Range(categories'[v])]_vars

(* C26: in the local variant the records of a list keep pairwise distinct
   ids: an add puts the new record under the id max(existing ids) + 1, or 1
   for the empty list, next to the unchanged existing records; an update
   changes only the record that is edited and a delete removes only the
   record with the given id *)
OnlyAdded(old, new) ==
    \E id \in DOMAIN new \ DOMAIN old :
        /\ DOMAIN new = DOMAIN old \cup {id}
        /\ \A i \in DOMAIN old : i < id /\ new[i] = old[i]
        /\ IF DOMAIN old = {} THEN id = 1 ELSE id - 1 \in DOMAIN old

OnlyUpdated(old, new, id) ==
    /\ DOMAIN new = DOMAIN old
    /\ \A i \in DOMAIN old \ {id} : new[i] = old[i]

C26_LocalIds ==
    [][(backend = "local") =>
          /\ ((\E n \in InputNames : onSubmitCategoryLocal(TheUser, n))
                  /\ categories' # categories) =>
                IF editingCategoryId[TheUser] = 0
                THEN OnlyAdded(categories[TheUser], categories'[TheUser])
                ELSE OnlyUpdated(categories[TheUser], categories'[TheUser],
                                 editingCategoryId[TheUser])
          /\ ((\E n \in InputNames : onSubmitVendorLocal(TheUser, n))
                  /\ vendors' # vendors) =>
                IF editingVendorId[TheUser] = 0
                THEN OnlyAdded(vendors[TheUser], vendors'[TheUser])
                ELSE OnlyUpdated(vendors[TheUser], vendors'[TheUser],
                                 editingVendorId[TheUser])
          /\ \A id \in 1..(MaxRecords + 1) :
                /\ (deleteCategoryLocal(TheUser, id) /\ categories' # categories)
                       => categories'[TheUser] = Remove(categories[TheUser], id)
                /\ (deleteVendorLocal(TheUser, id) /\ vendors' # vendors)
                       => vendors'[TheUser] = Remove(vendors[TheUser], id)]_vars

(* a second category was added, the first one deleted and the second one
   renamed *)
C26_Witness ==
    /\ backend = "local"
    /\ DOMAIN categories[TheUser] = {2}
    /\ categories[TheUser][2] = "a"
    /\ notice[TheUser] = "Category Updated"

(* C27: whenever edit mode is active on the vendors or categories screen, the
   editing id is the id of a record of the displayed list, also after the
   record was removed through another tab's change notification, and no
   submit reports a successful update for a record that is not in the list *)
C27_EditingListed ==
    [][\A v \in Views :
          /\ (page'[v] = "categories" /\ editingCategoryId'[v] # 0)
                 => editingCategoryId'[v] \in DOMAIN categories'[v]
          /\ (page'[v] = "vendors" /\ editingVendorId'[v] # 0)
                 => editingVendorId'[v] \in DOMAIN vendors'[v]
          /\ (notice'[v] = "Category Updated" /\ editingCategoryId[v] # 0
                 /\ editingCategoryId'[v] = 0)
                 => editingCategoryId[v] \in DOMAIN categories[v]
          /\ (notice'[v] = "Vendor Updated" /\ editingVendorId[v] # 0
                 /\ editingVendorId'[v] = 0)
                 => editingVendorId[v] \in DOMAIN vendors[v]]_vars

(* C28: in the local variant a vendor or category delete whose usage check
   finds a stored expenses value that cannot be parsed is aborted with an
   error notice and leaves the collection unchanged; when no expenses value
   is stored the record counts as unused and the delete proceeds *)
C28_UsageCheckFails ==
    [][\A id \in 1..(MaxRecords + 1) :
          /\ (deleteCategoryLocal(TheUser, id) /\ parseThrows(savedExpenses)) =>
                /\ notice'[TheUser] = "Error checking usage"
                /\ UNCHANGED <<categories, localStorage>>
          /\ (deleteVendorLocal(TheUser, id) /\ parseThrows(savedExpenses)) =>
                /\ notice'[TheUser] = "Error checking usage"
                /\ UNCHANGED <<vendors, localStorage>>
          /\ (deleteCategoryLocal(TheUser, id) /\ savedExpenses = NoItem) =>
                /\ notice'[TheUser] = "Category Deleted"
                /\ categories'[TheUser] = Remove(categories[TheUser], id)
          /\ (deleteVendorLocal(TheUser, id) /\ savedExpenses = NoItem) =>
                /\ notice'[TheUser] = "Vendor Deleted"
                /\ vendors'[TheUser] = Remove(vendors[TheUser], id)]_vars

(* C29: in the local variant the mount of a vendors or categories view over a
   valid stored list writes nothing while the view is loading and then writes
   exactly the list it read: the stored list is unchanged, no other tab is
   notified of a change, and the view shows the stored list *)
C29_MountKeepsStored ==
    [][\A v \in Views : \A p \in {"categories", "vendors"} :
          (openPage(v, p) /\ localStorage[KeyOf(p)].kind = "json") =>
              /\ UNCHANGED localStorage
              /\ \A w \in Views \ {v} : events'[w] = events[w]
              /\ (p = "categories" => categories'[v] = localStorage[KeyOf(p)].list)
              /\ (p = "vendors" => vendors'[v] = localStorage[KeyOf(p)].list)]_vars

(* both tabs have mounted the categories page over the stored list of one
   record, and no tab was notified of a change *)
C29_Witness ==
    /\ backend = "local"
    /\ page = [v \in Views |-> "categories"]
    /\ localStorage[LOCAL_STORAGE_KEY_CATEGORIES] = stringify((1 :> "A"))
    /\ categories = [v \in Views |-> (1 :> "A")]
    /\ events = [v \in Views |-> <<>>]
    /\ notice = [v \in Views |-> ""]

====
